---------------------------- MODULE Spec2Model ----------------------------
(***************************************************************************)
(* Model of the composer: the Template/Layer data model                    *)
(* (models/template.py), the combinatorial composition generator           *)
(* (composer_core/composer/composition.py), the render step                *)
(* (composer_core/composer/compose.py), the batch worker (composer.py),    *)
(* the S3 upload (_s3/sync.py) and min_resize                              *)
(* (composer_core/composer/common.py).                                     *)
(*                                                                         *)
(* The specifications share the module, one per part of the program:       *)
(*   SpecGen       CompositionBuilder.compose() over bounded asset pools   *)
(*   SpecValid     Composition.is_valid() over hand-built item lists       *)
(*   SpecTemplate  the life of a Template (layers, background, markup)     *)
(*   SpecRender    compose() writing the rendered image of a composition   *)
(*   SpecSync      S3Sync.sync() over a folder and a bucket                *)
(*   SpecRun       ComposeWorker.run() over a batch of Compositions        *)
(*   SpecFit       min_resize() applied to a rectangle and to its result   *)
(*   SpecName      compute_output_name() over asset names and patterns     *)
(*   SpecCrop      the crop rectangle of extract_zoom_foreground()         *)
(*   SpecGui       generate requests of the window and their workers       *)
(* Each leaves the variables of the other parts unchanged.                 *)
(***************************************************************************)
EXTENDS Integers, Sequences, FiniteSets, TLC

(***************************************************************************)
(* Bounds of the model.                                                    *)
(***************************************************************************)
\* largest pool of primary assets
MaxP == 2
\* largest pool of presentation assets
MaxR == 2
\* largest pool of secondary assets
MaxS == 3
\* largest number of SECONDARY layers declared on the template
MaxK == 2
\* longest item list of a hand-built Composition
MaxItems == 3
\* most Layer objects created in one run of the process
MaxCreated == 2
\* most compose() calls that rasterize
MaxRenders == 3
\* number of distinct file paths and bucket keys
MaxKeys == 3
\* most compositions of a batch
MaxBatch == 2
\* bits of the significand of a float of the model
MantissaBits == 6
\* largest width and height of the rectangle given to min_resize
MaxSide == 5
\* largest desired width and height the ratio is made of
MaxTarget == 4
\* largest scene coordinate and largest side of a selection or an image
MaxCoord == 2
\* most generate requests in one run of the window
MaxRequests == 2

(***************************************************************************)
(* Python values.                                                          *)
(***************************************************************************)
\* Python's None, and a non-None value, kept apart from every sequence
None == [none |-> TRUE]
IsNone(v) == DOMAIN v = {"none"}

\* LayerType (models/template.py)
LayerType == {"PRIMARY", "PRESENTATION", "SECONDARY", "ZOOM_SELECTION", "CROP_SELECTION"}

\* Layer.layer_id: f'layer-{type.name}-{inner_id}'
layer_id(layer) == <<"layer", layer.type, layer.ordinal>>

\* Layer.image_id: f'image-{type.name}-{inner_id}'
image_id(layer) == <<"image", layer.type, layer.ordinal>>

\* CompositionItem = namedtuple('CompositionItem', 'image_path, layer')
CompositionItem(image_path, layer) == [image_path |-> image_path, layer |-> layer]

(***************************************************************************)
(* itertools, as CPython computes them (lexicographic in input positions). *)
(***************************************************************************)
RECURSIVE Flatten(_)
\* itertools.chain.from_iterable over a sequence of sequences
Flatten(seqs) ==
    IF seqs = <<>> THEN <<>> ELSE Head(seqs) \o Flatten(Tail(seqs))

\* a sequence given as a function on 1..n, as an explicit tuple (the value
\* is the same; the tuple is indexed without re-evaluating the function)
List(f) == <<>> \o f

\* x prepended to every tuple of a sequence of tuples
PrependAll(x, tuples) == List([i \in 1..Len(tuples) |-> <<x>> \o tuples[i]])

RECURSIVE permutations_from(_, _, _)
RECURSIVE permutations_step(_, _, _, _)
\* the r-length permutations of pool that avoid the positions in used
permutations_from(pool, r, used) ==
    IF r = 0 THEN << <<>> >> ELSE permutations_step(pool, r, used, 1)

permutations_step(pool, r, used, i) ==
    IF i > Len(pool) THEN <<>>
    ELSE (IF i \in used THEN <<>>
          ELSE PrependAll(pool[i], permutations_from(pool, r - 1, used \cup {i})))
         \o permutations_step(pool, r, used, i + 1)

\* itertools.permutations(pool, r)
permutations(pool, r) == permutations_from(pool, r, {})

RECURSIVE combinations(_, _)
\* itertools.combinations(pool, r): r-length subsequences, by position
combinations(pool, r) ==
    IF r = 0 THEN << <<>> >>
    ELSE IF Len(pool) < r THEN <<>>
    ELSE PrependAll(Head(pool), combinations(Tail(pool), r - 1))
         \o combinations(Tail(pool), r)

\* itertools.product(a, b): a varies slowest, b fastest
product(a, b) ==
    LET lb == Len(b)
    IN  List([n \in 1..(Len(a) * lb) |->
                 <<a[((n - 1) \div lb) + 1], b[((n - 1) % lb) + 1]>>])

\* zip(a, b): stops at the shorter one
zip(a, b) ==
    LET n == IF Len(a) < Len(b) THEN Len(a) ELSE Len(b)
    IN  List([i \in 1..n |-> <<a[i], b[i]>>])

(***************************************************************************)
(* State.                                                                  *)
(***************************************************************************)
VARIABLES
    \* --- the generator (CompositionBuilder) ---
    gen_layers,                  \* Template.__layers of the builder's template
    primaries,                   \* CompositionBuilder._primaries
    secondaries,                 \* CompositionBuilder._secondaries
    presentations,               \* CompositionBuilder._presentations
    include_presentation_items,  \* settings.include_presentation_items
    include_secondary_items,     \* settings.include_secondary_items
    gen_pc,                      \* "ready" before compose() is consumed, "done" after
    compositions,                \* list(composition_builder.compose())
    \* --- one Composition built by hand ---
    val_items,                   \* Composition._items
    val_pc,                      \* "ready" before is_valid() is called, "done" after
    val_result,                  \* what is_valid() returned
    \* --- the Template of the scene, and the process-wide Layer counters ---
    layers,                      \* Template.__layers
    background,                  \* Template.__background
    base_svg,                    \* Template.__base_svg
    loaded_from_file,            \* Template.__loaded_from_file
    str_representation,          \* Template.__str_representation
    layer_map_to_item,           \* Template.__layer_map_to_item (the mapped layers)
    _type_counter,               \* Layer._type_counter (class attribute)
    created_ids,                 \* history: (type, ordinal) of every Layer ever created
    n_created,                   \* history: how many Layer objects were ever created
    last_call,                   \* history: the last Template call and how it ended
    \* --- compose() and the files it writes ---
    fs,                          \* the output directory: what each path holds
    rasterized,                  \* history: how many times an svg was rasterized
    compose_result,              \* history: the last compose() call and how it ended
    \* --- S3Sync.sync: the source folder and the bucket ---
    local_paths,                 \* list_source_objects(source): the relative file paths
    bucket,                      \* the keys of the objects of the bucket
    upload_calls,                \* history: the keys passed to upload_file
    sync_pc,                     \* "ready" before sync() is called, "done" after
    \* --- ComposeWorker.run over a batch ---
    batch,                       \* ComposeWorker._compositions: the item list of each
    upload_to_s3,                \* options.upload_to_s3
    zoom_fails,                  \* whether cropping the zoom images fails in this run
    run_i,                       \* position of the for loop of run()
    run_pc,                      \* "loop", "synced", "done", or "raised"
    events,                      \* history: the signals emitted, in order
    save_log,                    \* history: the Composition.save calls and how they ended
    \* --- min_resize applied to a rectangle, and to its own result ---
    fit_r,                       \* the rectangle r
    fit_ratio,                   \* the ratio
    fit_once,                    \* min_resize(r, ratio), None before the call
    fit_twice,                   \* min_resize(min_resize(r, ratio), ratio), None before
    \* --- compute_output_name ---
    name_items,                  \* Composition._items of the composition to name
    name_patterns,               \* the three code patterns
    name_background,             \* Template.background (its file name) or None
    name_append_bg,              \* append_bg_name_as_suffix
    name_result,                 \* what the call returned or raised, None before
    \* --- Composition.extract_zoom_foreground ---
    crop_zoom_layer,                  \* pos and size of the template's ZOOM_SELECTION layer
    crop_primary_layer,               \* pos of the template's PRIMARY layer
    crop_scale_factor,   \* primary_item.scale()
    crop_original_image,              \* size of the primary item's image
    crop_call,                   \* the arguments given to image.crop, None before
    \* --- the Composer window and its workers ---
    workers,                     \* every ComposeWorker started, oldest first
    composition_thread,          \* Composer._composition_thread: index of its worker, 0 at first
    process,                     \* "running" or "aborted"
    gui_queue,                   \* signals emitted by workers, not yet handled by the window
    progressBar                  \* value, minimum and maximum of ui.progressBar

gen_vars == <<gen_layers, primaries, secondaries, presentations,
              include_presentation_items, include_secondary_items,
              gen_pc, compositions>>

val_vars == <<val_items, val_pc, val_result>>

tpl_vars == <<layers, background, base_svg, loaded_from_file, str_representation,
              layer_map_to_item, _type_counter, created_ids, n_created, last_call>>

rnd_vars == <<fs, rasterized, compose_result>>

s3_vars == <<local_paths, bucket, upload_calls, sync_pc>>

\* the parts added after the generator, the template and compose()
run_vars == <<batch, upload_to_s3, zoom_fails, run_i, run_pc, events, save_log>>

fit_vars == <<fit_r, fit_ratio, fit_once, fit_twice>>

name_vars == <<name_items, name_patterns, name_background, name_append_bg, name_result>>

crop_vars == <<crop_zoom_layer, crop_primary_layer, crop_scale_factor, crop_original_image,
               crop_call>>

gui_vars == <<workers, composition_thread, process, gui_queue, progressBar>>

aux_vars == <<name_vars, crop_vars, gui_vars>>

ext_vars == <<s3_vars, run_vars, fit_vars, aux_vars>>

vars == <<gen_vars, val_vars, tpl_vars, rnd_vars, ext_vars>>

(***************************************************************************)
(* Template accessors used by the generator.                               *)
(***************************************************************************)
\* Template.get_secondary_layers
get_secondary_layers(lyrs) ==
    SelectSeq(lyrs, LAMBDA l : l.type = "SECONDARY")

\* Template._get_layer_by_type: the first layer of the type, or None
_get_layer_by_type(lyrs, type) ==
    LET found == SelectSeq(lyrs, LAMBDA l : l.type = type)
    IN  IF found = <<>> THEN None ELSE Head(found)

(***************************************************************************)
(* CompositionBuilder.                                                     *)
(***************************************************************************)
\* CompositionBuilder.build_primary_items
build_primary_items(lyrs, pool) ==
    LET primary_layer == _get_layer_by_type(lyrs, "PRIMARY")
    IN  List([i \in 1..Len(pool) |-> CompositionItem(pool[i], primary_layer)])

\* CompositionBuilder.build_presentation_items
build_presentation_items(lyrs, pool) ==
    LET presentation_layer == _get_layer_by_type(lyrs, "PRESENTATION")
    IN  List([i \in 1..Len(pool) |-> CompositionItem(pool[i], presentation_layer)])

\* CompositionBuilder.build_secondary_items: ONE flat sequence of items, the
\* items of every permutation one after the other (the generator yields
\* items, not groups)
build_secondary_items(lyrs, pool) ==
    LET secondary_layers == get_secondary_layers(lyrs)
        number_of_layers == Len(secondary_layers)
        perms == permutations(pool, number_of_layers)
        group(combo) ==
            LET pairs == zip(combo, secondary_layers)
            IN  List([i \in 1..Len(pairs) |-> CompositionItem(pairs[i][1], pairs[i][2])])
    IN  Flatten(List([i \in 1..Len(perms) |-> group(perms[i])]))

\* the same pairs with the presentations outermost
primary_presentation_combos_by_presentation(primary_items, presentation_items) ==
    IF ~IsNone(presentation_items)
    THEN LET pairs == product(presentation_items.gen, primary_items)
         IN  List([i \in 1..Len(pairs) |-> <<pairs[i][2], pairs[i][1]>>])
    ELSE List([i \in 1..Len(primary_items) |-> <<primary_items[i]>>])

\* compose(), lines 434-437: a generator object is truthy even when it
\* yields nothing, so the test is on None alone
primary_presentation_combos(primary_items, presentation_items) ==
    IF ~IsNone(presentation_items)
    THEN product(primary_items, presentation_items.gen)
    ELSE List([i \in 1..Len(primary_items) |-> <<primary_items[i]>>])

\* the same with an empty list where the code has [None]
secondary_combos_empty(secondary_items, lyrs) ==
    IF ~IsNone(secondary_items)
    THEN LET combos == combinations(secondary_items.gen, Len(get_secondary_layers(lyrs)))
         IN  List([i \in 1..Len(combos) |-> [gen |-> combos[i]]])
    ELSE <<>>

\* the same without the combinations that hold no item
secondary_combos_of_items(secondary_items, lyrs) ==
    IF ~IsNone(secondary_items)
    THEN LET combos == SelectSeq(combinations(secondary_items.gen,
                                              Len(get_secondary_layers(lyrs))),
                                 LAMBDA c : c # <<>>)
         IN  List([i \in 1..Len(combos) |-> [gen |-> combos[i]]])
    ELSE <<None>>

\* compose(), lines 439-442: combinations of the flat item sequence, or the
\* one-element list [None]
secondary_combos(secondary_items, lyrs) ==
    IF ~IsNone(secondary_items)
    THEN LET combos == combinations(secondary_items.gen, Len(get_secondary_layers(lyrs)))
         IN  List([i \in 1..Len(combos) |-> [gen |-> combos[i]]])
    ELSE <<None>>

\* compose(), lines 444-458: one Composition (its item list) per pair
compose_loop(pp_combos, sec_combos) ==
    LET all_(combo) ==
            LET primary_and_presentation == combo[1]
                secs == combo[2]
            IN  IF ~IsNone(secs) /\ Len(secs.gen) > 0
                THEN primary_and_presentation \o secs.gen
                ELSE primary_and_presentation
        combos == product(pp_combos, sec_combos)
    IN  List([i \in 1..Len(combos) |-> all_(combos[i])])

\* CompositionBuilder.compose, consumed to the end
CompositionBuilder_compose(lyrs, prim, sec, pres, incl_pres, incl_sec) ==
    LET primary_items == build_primary_items(lyrs, prim)
        presentation_items ==
            IF incl_pres THEN [gen |-> build_presentation_items(lyrs, pres)] ELSE None
        secondary_items ==
            IF incl_sec THEN [gen |-> build_secondary_items(lyrs, sec)] ELSE None
    IN  compose_loop(primary_presentation_combos(primary_items, presentation_items),
                     secondary_combos(secondary_items, lyrs))

(***************************************************************************)
(* Composition.                                                            *)
(***************************************************************************)
RECURSIVE is_valid_loop(_, _, _)
\* the loop of is_valid: layer_id_count counts the ids seen so far
is_valid_loop(items, i, layer_id_count) ==
    IF i > Len(items) THEN TRUE
    ELSE LET id == layer_id(items[i].layer)
             n == (IF id \in DOMAIN layer_id_count THEN layer_id_count[id] ELSE 0) + 1
         IN  IF n > 1 THEN FALSE
             ELSE is_valid_loop(items, i + 1,
                                [k \in DOMAIN layer_id_count \cup {id} |->
                                    IF k = id THEN n ELSE layer_id_count[k]])

RECURSIVE is_valid_loop_off_by_one(_, _, _)
\* the same loop with the test written "> 2"
is_valid_loop_off_by_one(items, i, layer_id_count) ==
    IF i > Len(items) THEN TRUE
    ELSE LET id == layer_id(items[i].layer)
             n == (IF id \in DOMAIN layer_id_count THEN layer_id_count[id] ELSE 0) + 1
         IN  IF n > 2 THEN FALSE
             ELSE is_valid_loop_off_by_one(items, i + 1,
                                [k \in DOMAIN layer_id_count \cup {id} |->
                                    IF k = id THEN n ELSE layer_id_count[k]])

is_valid_off_by_one(items) == is_valid_loop_off_by_one(items, 1, <<>>)

\* Composition.is_valid
is_valid(items) == is_valid_loop(items, 1, <<>>)

\* Composition.secondary_items
secondary_items_of(items) ==
    SelectSeq(items, LAMBDA x : x.layer.type = "SECONDARY")

(***************************************************************************)
(* SpecGen: the generator over every pool size and template within bounds. *)
(***************************************************************************)
\* a pool of n pairwise distinct asset paths
Pool(kind, n) == [i \in 1..n |-> <<kind, i>>]

\* the layer list of a template with one PRIMARY, one PRESENTATION and k
\* SECONDARY layers, each with the ordinal Layer.__init__ gave it
TemplateLayers(k) ==
    << [type |-> "PRIMARY", ordinal |-> 0],
       [type |-> "PRESENTATION", ordinal |-> 0] >>
    \o [i \in 1..k |-> [type |-> "SECONDARY", ordinal |-> i - 1]]

InitGen ==
    /\ gen_layers \in {TemplateLayers(k) : k \in 0..MaxK}
    /\ primaries \in {Pool("primary", n) : n \in 0..MaxP}
    /\ secondaries \in {Pool("secondary", n) : n \in 0..MaxS}
    /\ presentations \in {Pool("presentation", n) : n \in 0..MaxR}
    /\ include_presentation_items \in BOOLEAN
    /\ include_secondary_items \in BOOLEAN
    /\ gen_pc = "ready"
    /\ compositions = <<>>

\* the generator left unused
IdleGen ==
    /\ gen_layers = TemplateLayers(0)
    /\ primaries = <<>>
    /\ secondaries = <<>>
    /\ presentations = <<>>
    /\ include_presentation_items = TRUE
    /\ include_secondary_items = TRUE
    /\ gen_pc = "ready"
    /\ compositions = <<>>

\* on_generate_button_clicked: compositions = list(composition_builder.compose())
Compose ==
    /\ gen_pc = "ready"
    /\ compositions' = CompositionBuilder_compose(gen_layers, primaries, secondaries,
                           presentations, include_presentation_items,
                           include_secondary_items)
    /\ gen_pc' = "done"
    /\ UNCHANGED <<gen_layers, primaries, secondaries, presentations,
                   include_presentation_items, include_secondary_items>>

(***************************************************************************)
(* SpecValid: is_valid() on every item list within bounds.                 *)
(***************************************************************************)
\* the Layer objects an item may be bound to
ValLayers ==
    { [type |-> "PRIMARY", ordinal |-> 0],
      [type |-> "PRESENTATION", ordinal |-> 0],
      [type |-> "SECONDARY", ordinal |-> 0],
      [type |-> "SECONDARY", ordinal |-> 1] }

\* the assets an item may carry
ValAssets == {<<"asset", 1>>, <<"asset", 2>>}

ValItems == {CompositionItem(a, l) : a \in ValAssets, l \in ValLayers}

\* every sequence over S of length at most n
SeqUpTo(S, n) == UNION {[1..m -> S] : m \in 0..n}

InitValid ==
    /\ val_items \in SeqUpTo(ValItems, MaxItems)
    /\ val_pc = "ready"
    /\ val_result = FALSE

\* no Composition built by hand
IdleValid ==
    /\ val_items = <<>>
    /\ val_pc = "ready"
    /\ val_result = FALSE

\* ComposeWorker.run, line 44: composition.is_valid()
IsValidCall ==
    /\ val_pc = "ready"
    /\ val_result' = is_valid(val_items)
    /\ val_pc' = "done"
    /\ UNCHANGED val_items

(***************************************************************************)
(* Layer and Template (models/template.py).                                *)
(***************************************************************************)
\* a number, and the text of a number: Python keeps them apart
Num(n) == [num |-> n]
Str(n) == [str |-> n]

\* f'{v}': the text of a number, a string as it is
Format(v) == IF "num" \in DOMAIN v THEN Str(v.num) ELSE v

\* Position = namedtuple('Position', 'x, y, z')
Position(x, y, z) == [x |-> x, y |-> y, z |-> z]

\* Size = namedtuple('Size', 'width, height')
Size(width, height) == [width |-> width, height |-> height]

\* the LayerTypes add_layer hands to _add_selection_layer
SelectionTypes == {"CROP_SELECTION", "ZOOM_SELECTION"}

\* the LayerTypes of content layers
ContentTypes == LayerType \ SelectionTypes

\* how many layers of a type a layer list holds
CountType(lyrs, type) == Len(SelectSeq(lyrs, LAMBDA l : l.type = type))

\* the single-result accessors of the Template
get_primary_layer == _get_layer_by_type(layers, "PRIMARY")
get_presentation_layer == _get_layer_by_type(layers, "PRESENTATION")
get_zoom_selection_layer == _get_layer_by_type(layers, "ZOOM_SELECTION")
get_crop_selection_layer == _get_layer_by_type(layers, "CROP_SELECTION")

\* an ordinal taken from the layers the template holds now, not from the
\* class-wide counter
next_inner_id_per_template(counter, lyrs, type) == CountType(lyrs, type)

\* Layer.__init__, line 81: next(Layer._type_counter[self.type])
next_inner_id(counter, lyrs, type) == counter[type]

\* Layer.__init__ / SelectionLayer.__init__
Layer(pos, size, type, ordinal) ==
    [type |-> type, ordinal |-> ordinal, pos |-> pos, size |-> size,
     class |-> IF type \in SelectionTypes THEN "SelectionLayer" ELSE "Layer"]

\* the identity of a Layer object
LayerKey(layer) == <<layer.type, layer.ordinal>>

\* Layer.xml / SelectionLayer.xml: XML_REPR.format(...)
xml(layer) ==
    [tag |-> IF layer.class = "SelectionLayer" THEN "selection_layer" ELSE "g",
     id |-> layer_id(layer),
     image |-> [id |-> image_id(layer),
                x |-> Format(layer.pos.x), y |-> Format(layer.pos.y),
                height |-> Format(layer.size.height),
                width |-> Format(layer.size.width)]]

\* svg.compose.Figure(width, height, svg.compose.Image(width, height, path))
Figure(size, path) == [width |-> size.width, height |-> size.height, image |-> path]

\* the layer's xml spliced in right after the root's opening
inject_layer_first(svg_xml, layer) ==
    [svg_xml EXCEPT !.body = <<xml(layer)>> \o @]

\* Template.__inject_layer: the layer's xml spliced in before '</svg>'
inject_layer(svg_xml, layer) ==
    [svg_xml EXCEPT !.body = Append(@, xml(layer))]

RECURSIVE inject_layers(_, _, _)
\* the loop of __build_svg_final_figure
inject_layers(svg_xml, lyrs, i) ==
    IF i > Len(lyrs) THEN svg_xml
    ELSE inject_layers(inject_layer(svg_xml, lyrs[i]), lyrs, i + 1)

\* Template.__build_svg_final_figure, once base_svg is known not to be None
build_svg_final_figure(figure, lyrs) ==
    inject_layers([root |-> figure, body |-> <<>>], lyrs, 1)

\* add_layer, line 195 (read "and loaded_from_file")
content_layer_refused_if_loaded == base_svg = None /\ loaded_from_file

\* add_layer, line 195: a content layer needs a background
content_layer_refused == base_svg = None /\ ~loaded_from_file

\* _add_selection_layer without its test
selection_layer_never_refused == FALSE

\* _add_selection_layer, line 203: a selection layer needs one too
selection_layer_refused == base_svg = None /\ ~loaded_from_file

\* Template.render_to_bytes: what it returns, or the error it raises
render_to_bytes ==
    IF str_representation # None
    THEN [raised |-> "", bytes |-> str_representation]
    ELSE IF base_svg = None
         THEN [raised |-> "NoBaseSvgError", bytes |-> None]
         ELSE [raised |-> "", bytes |-> build_svg_final_figure(base_svg, layers)]

\* the record of a Template call in last_call
Call(op, type, result) == [op |-> op, type |-> type, result |-> result]

\* Template.__init__
InitTemplate ==
    /\ layers = <<>>
    /\ background = None
    /\ base_svg = None
    /\ loaded_from_file = FALSE
    /\ str_representation = None
    /\ layer_map_to_item = {}
    /\ _type_counter = [t \in LayerType |-> 0]
    /\ created_ids = {}
    /\ n_created = 0
    /\ last_call = Call("__init__", "-", "ok")

\* the position and size of an item dropped on the scene
Geometries ==
    { [pos |-> Position(Num(0), Num(0), Num(0)), size |-> Size(Num(100), Num(100))] }

\* the position and size of an item after it was moved and resized
MovedGeometries ==
    { [pos |-> Position(Num(10), Num(20), Num(0)), size |-> Size(Num(50), Num(80))] }

\* the background files a user may drop: one that exists, one that does not
ExistingFiles == {"bg.png"}
BackgroundPaths == ExistingFiles \cup {"missing.png"}

\* the size set_background is called with (None: the default of 1500 x 1500)
BackgroundSizes == {None}

\* Template(): a new, empty template replaces the scene's template; the
\* class-wide counters go on
NewTemplate ==
    /\ layers' = <<>>
    /\ background' = None
    /\ base_svg' = None
    /\ loaded_from_file' = FALSE
    /\ str_representation' = None
    /\ layer_map_to_item' = {}
    /\ last_call' = Call("__init__", "-", "ok")
    /\ UNCHANGED <<_type_counter, created_ids, n_created>>
    /\ UNCHANGED <<gen_vars, val_vars, rnd_vars, ext_vars>>

\* Template.add_layer (with _add_selection_layer), then map_layer_with_item as
\* process_dropped_data and on_area_zoom/crop_action_toggled do on success
AddLayer(type, geom) ==
    LET refused == IF type \in SelectionTypes
                   THEN selection_layer_refused
                   ELSE content_layer_refused
        layer == Layer(geom.pos, geom.size, type,
                       next_inner_id(_type_counter, layers, type))
    IN  IF refused
        THEN /\ last_call' = Call("add_layer", type, "NoBaseSvgError")
             /\ UNCHANGED <<layers, layer_map_to_item, _type_counter,
                            created_ids, n_created>>
             /\ UNCHANGED <<background, base_svg, loaded_from_file, str_representation>>
             /\ UNCHANGED <<gen_vars, val_vars, rnd_vars, ext_vars>>
        ELSE /\ n_created < MaxCreated
             /\ layers' = Append(layers, layer)
             /\ layer_map_to_item' = layer_map_to_item \cup {LayerKey(layer)}
             /\ _type_counter' = [_type_counter EXCEPT ![type] = @ + 1]
             /\ created_ids' = created_ids \cup {LayerKey(layer)}
             /\ n_created' = n_created + 1
             /\ last_call' = Call("add_layer", type, "ok")
             /\ UNCHANGED <<background, base_svg, loaded_from_file, str_representation>>
             /\ UNCHANGED <<gen_vars, val_vars, rnd_vars, ext_vars>>

\* list.remove: the first element equal to the one given is taken out
ListRemove(lyrs, key) ==
    LET first == CHOOSE i \in 1..Len(lyrs) :
                    /\ LayerKey(lyrs[i]) = key
                    /\ \A j \in 1..(i - 1) : LayerKey(lyrs[j]) # key
    IN  SubSeq(lyrs, 1, first - 1) \o SubSeq(lyrs, first + 1, Len(lyrs))

\* Template.remove_layer_for_item, for an item that is mapped
RemoveLayerForItem(item) ==
    /\ item \in layer_map_to_item
    /\ layers' = ListRemove(layers, item)
    /\ layer_map_to_item' = layer_map_to_item \ {item}
    /\ last_call' = Call("remove_layer_for_item", "-", "ok")
    /\ UNCHANGED <<background, base_svg, loaded_from_file, str_representation,
                   _type_counter, created_ids, n_created>>
    /\ UNCHANGED <<gen_vars, val_vars, rnd_vars, ext_vars>>

\* Template.update_layer with Layer.update: the mapped layer takes the item's
\* position and size; an unmapped item changes nothing
UpdateLayer(item, geom) ==
    /\ layers' = List([i \in 1..Len(layers) |->
                    IF item \in layer_map_to_item /\ LayerKey(layers[i]) = item
                    THEN [layers[i] EXCEPT !.pos = geom.pos, !.size = geom.size]
                    ELSE layers[i]])
    /\ last_call' = Call("update_layer", "-", "ok")
    /\ UNCHANGED <<background, base_svg, loaded_from_file, str_representation,
                   layer_map_to_item, _type_counter, created_ids, n_created>>
    /\ UNCHANGED <<gen_vars, val_vars, rnd_vars, ext_vars>>

\* Template.set_background: the path is kept when it is a file; the Figure is
\* built from it, and a failure to read it is logged and leaves __base_svg
SetBackground(path, size) ==
    LET sz == IF size = None THEN Size(1500, 1500) ELSE size
    IN  /\ background' = IF path \in ExistingFiles THEN [path |-> path] ELSE background
        /\ base_svg' = IF path \in ExistingFiles THEN Figure(sz, path) ELSE base_svg
        /\ last_call' = Call("set_background", "-", "ok")
        /\ UNCHANGED <<layers, loaded_from_file, str_representation,
                       layer_map_to_item, _type_counter, created_ids, n_created>>
        /\ UNCHANGED <<gen_vars, val_vars, rnd_vars, ext_vars>>

\* Template.remove_background
RemoveBackground ==
    /\ background' = None
    /\ base_svg' = None
    /\ last_call' = Call("remove_background", "-", "ok")
    /\ UNCHANGED <<layers, loaded_from_file, str_representation,
                   layer_map_to_item, _type_counter, created_ids, n_created>>
    /\ UNCHANGED <<gen_vars, val_vars, rnd_vars, ext_vars>>

\* a call of Template.render_to_bytes: a result that is not empty is kept
RenderToBytes ==
    LET r == render_to_bytes
    IN  /\ str_representation' = IF r.raised = "" THEN r.bytes ELSE str_representation
        /\ last_call' = Call("render_to_bytes", "-", IF r.raised = "" THEN "ok" ELSE r.raised)
        /\ UNCHANGED <<layers, background, base_svg, loaded_from_file,
                       layer_map_to_item, _type_counter, created_ids, n_created>>
        /\ UNCHANGED <<gen_vars, val_vars, rnd_vars, ext_vars>>

\* the markup of a slot as a template file holds it
FileElement(type, n, x, y, width, height) ==
    [tag |-> "g",
     id |-> <<"layer", type, n>>,
     image |-> [id |-> <<"image", type, n>>,
                x |-> Str(x), y |-> Str(y),
                height |-> Str(height), width |-> Str(width)]]

\* the template files a user may pick: markup saved by an earlier run
TemplateFiles ==
    { [root |-> Figure(Size(1500, 1500), "bg.png"),
       body |-> << FileElement("PRIMARY", 0, 10, 20, 50, 80),
                   FileElement("SECONDARY", 0, 0, 0, 100, 100) >>],
      [root |-> Figure(Size(800, 600), "bg.png"),
       body |-> << FileElement("PRIMARY", 0, 0, 0, 100, 100) >>],
      [root |-> Figure(Size(1500, 1500), "bg.png"),
       body |-> << [FileElement("ZOOM_SELECTION", 0, 5, 5, 40, 40)
                       EXCEPT !.tag = "selection_layer"],
                   FileElement("PRIMARY", 0, 0, 0, 100, 100) >>] }

\* load_from_file, lines 220-224
layer_type_map == {"PRIMARY", "SECONDARY", "PRESENTATION"}

RECURSIVE load_layers(_, _, _, _)
\* the loop of load_from_file over the elements whose id starts with
\* "layer-": each becomes a Layer through add_layer (never refused, since
\* __loaded_from_file is set before the loop); a type name that is not in
\* layer_type_map raises KeyError and ends the loop
load_layers(elements, i, lyrs, counter) ==
    IF i > Len(elements)
    THEN [layers |-> lyrs, counter |-> counter, raised |-> ""]
    ELSE LET layer_type_name == elements[i].id[2]
             image == elements[i].image
             pos == Position(image.x, image.y, Num(0))
             size == Size(image.width, image.height)
         IN  IF layer_type_name \notin layer_type_map
             THEN [layers |-> lyrs, counter |-> counter, raised |-> "KeyError"]
             ELSE load_layers(elements, i + 1,
                      Append(lyrs, Layer(pos, size, layer_type_name,
                                         next_inner_id(counter, lyrs, layer_type_name))),
                      [counter EXCEPT ![layer_type_name] = @ + 1])

\* CSSSelector("[id^=layer-]")(tree): the elements whose id starts with "layer-"
layer_selector(tree) == SelectSeq(tree.body, LAMBDA e : e.id[1] = "layer")

\* Template.load_from_file
LoadFromFile(file) ==
    LET elements == layer_selector(file)
        loaded == load_layers(elements, 1, layers, _type_counter)
        new == {LayerKey(loaded.layers[i]) : i \in (Len(layers) + 1)..Len(loaded.layers)}
    IN  /\ n_created + Len(elements) <= MaxCreated
        /\ str_representation' = file
        /\ loaded_from_file' = TRUE
        /\ layers' = loaded.layers
        /\ _type_counter' = loaded.counter
        /\ created_ids' = created_ids \cup new
        /\ n_created' = n_created + (Len(loaded.layers) - Len(layers))
        /\ last_call' = Call("load_from_file", "-",
                             IF loaded.raised = "" THEN "ok" ELSE loaded.raised)
        /\ UNCHANGED <<background, base_svg, layer_map_to_item>>
        /\ UNCHANGED <<gen_vars, val_vars, rnd_vars, ext_vars>>

(***************************************************************************)
(* compose() (composer_core/composer/compose.py).                          *)
(***************************************************************************)
\* a path of the output directory: its stem and its suffix
OutputPath(stem, suffix) == [stem |-> stem, suffix |-> suffix]

\* the image files compose() may be asked to write
OutputFiles == {OutputPath("A", ".webp"), OutputPath("B", ".webp")}

\* str(output_file_path).replace(output_file_path.suffix, '.svg')
svg_file_name(output) == OutputPath(output.stem, ".svg")

\* every path of the output directory
FsPaths == OutputFiles \cup {svg_file_name(o) : o \in OutputFiles}

\* what a file written by an earlier run holds
Previous == [previous |-> TRUE]

\* the asset files on disk
AssetFiles == {"P1.png"}

\* the size of the image wand makes of the svg at the configured resolution
RasterSizes == {Size(1000, 500), Size(1500, 1500)}

\* settings.adaptive_resize_width and settings.adaptive_resize_height
ResizeTargets == {Size(1500, 0), Size(0, 750), Size(800, 600)}

\* the item lists compose() is called with: one whose layer is a slot of the
\* template, one whose layer is not
ComposeItems ==
    LET geom == CHOOSE g \in Geometries : TRUE
    IN  { << CompositionItem("P1.png", Layer(geom.pos, geom.size, "PRIMARY", 0)) >>,
          << CompositionItem("P1.png", Layer(geom.pos, geom.size, "PRIMARY", 1)) >> }

\* the output directory before anything is written to it
IdleRender ==
    /\ fs = [p \in FsPaths |-> None]
    /\ rasterized = 0
    /\ compose_result = None

\* svg.xpath('.//svg:image[@id="..."]'): are there elements with that id
has_image(markup, id) == \E i \in 1..Len(markup.body) : markup.body[i].image.id = id

\* the loop over the items, lines 89-109: the first item that is not a file, or
\* whose image_id no element of the markup carries, ends it with an error
items_error(markup, items) ==
    LET bad == {i \in 1..Len(items) :
                   \/ items[i].image_path \notin AssetFiles
                   \/ ~has_image(markup, image_id(items[i].layer))}
        first == CHOOSE i \in bad : \A j \in bad : i <= j
    IN  IF bad = {} THEN ""
        ELSE IF items[first].image_path \notin AssetFiles THEN "FileNotFoundError"
        ELSE "IndexError"

\* the svg compose() writes: the markup with each item's image put in its slot
svg_with_items(markup, items) ==
    [markup |-> markup,
     href |-> {<<image_id(items[i].layer), items[i].image_path>> : i \in 1..Len(items)}]

\* the factor taken from the height whenever the width is set
resize_factor_from_height(target, source) ==
    IF target.height # 0 /\ target.width # 0
    THEN [num |-> 1, den |-> 1]
    ELSE IF target.width = 0
         THEN [num |-> target.width, den |-> source.width]
         ELSE [num |-> target.height, den |-> source.height]

\* lines 143-159: the factor of the resize, as a fraction
resize_factor(target, source) ==
    IF (target.height + target.width) #
           (IF target.height # 0 THEN target.height ELSE target.width)
    THEN [num |-> 1, den |-> 1]
    ELSE IF target.height = 0
         THEN [num |-> target.width, den |-> source.width]
         ELSE [num |-> target.height, den |-> source.height]

\* lines 143-159: the size given to image.adaptive_resize
resized(target, source) ==
    LET factor == resize_factor(target, source)
    IN  IF (target.height + target.width) #
               (IF target.height # 0 THEN target.height ELSE target.width)
        THEN Size(target.width, target.height)
        ELSE Size((source.width * factor.num) \div factor.den,
                  (source.height * factor.num) \div factor.den)

\* lines 165-168: an existing file is unlinked when override_images is set,
\* and image.save writes the file in every case
save(files, output, override_images, image) ==
    LET unlinked == IF override_images /\ files[output] # None
                    THEN [files EXCEPT ![output] = None]
                    ELSE files
    IN  [unlinked EXCEPT ![output] = image]

\* compose(items, template, options, output)
ComposeCall(items, output, override_images, unsharp, target, source) ==
    LET r == render_to_bytes
        err == IF r.raised # "" THEN r.raised ELSE items_error(r.bytes, items)
        svg == svg_file_name(output)
        image == [svg |-> svg_with_items(r.bytes, items),
                  size |-> resized(target, source),
                  unsharp |-> unsharp]
        written == [fs EXCEPT ![svg] = svg_with_items(r.bytes, items)]
    IN  /\ str_representation' = IF r.raised = "" THEN r.bytes ELSE str_representation
        /\ IF err # ""
           THEN /\ compose_result' = [raised |-> err, output |-> output,
                                      override_images |-> override_images]
                /\ UNCHANGED <<fs, rasterized>>
           ELSE /\ rasterized < MaxRenders
                /\ rasterized' = rasterized + 1
                /\ fs' = save(written, output, override_images, image)
                /\ compose_result' = [raised |-> "", output |-> output,
                                      override_images |-> override_images,
                                      filename |-> output, svg_path |-> svg,
                                      scale_factor |-> resize_factor(target, source),
                                      target |-> target, source |-> source]
        /\ UNCHANGED <<layers, background, base_svg, loaded_from_file,
                       layer_map_to_item, _type_counter, created_ids, n_created,
                       last_call>>
        /\ UNCHANGED <<gen_vars, val_vars, ext_vars>>

\* the scene's template when the batch starts: a new one, or one with a
\* background and a PRIMARY slot
InitRender ==
    /\ fs \in [FsPaths -> {None, Previous}]
    /\ \A o \in OutputFiles : fs[svg_file_name(o)] = fs[o]
    /\ rasterized = 0
    /\ compose_result = None
    /\ \E ready \in BOOLEAN, geom \in Geometries :
          LET layer == Layer(geom.pos, geom.size, "PRIMARY", 0)
          IN  /\ layers = IF ready THEN <<layer>> ELSE <<>>
              /\ background = IF ready THEN [path |-> "bg.png"] ELSE None
              /\ base_svg = IF ready THEN Figure(Size(1500, 1500), "bg.png") ELSE None
              /\ loaded_from_file = FALSE
              /\ str_representation = None
              /\ layer_map_to_item = IF ready THEN {LayerKey(layer)} ELSE {}
              /\ _type_counter = [t \in LayerType |->
                                    IF ready /\ t = "PRIMARY" THEN 1 ELSE 0]
              /\ created_ids = IF ready THEN {LayerKey(layer)} ELSE {}
              /\ n_created = IF ready THEN 1 ELSE 0
              /\ last_call = IF ready THEN Call("add_layer", "PRIMARY", "ok")
                                      ELSE Call("__init__", "-", "ok")

(***************************************************************************)
(* S3Sync.sync (_s3/sync.py).                                              *)
(***************************************************************************)
\* the relative paths and keys: numbers, ordered as the strings they stand for
Keys == 1..MaxKeys

RECURSIVE sorted(_)
\* list.sort(): the keys in ascending order
sorted(keys) ==
    IF keys = {} THEN <<>>
    ELSE LET least == CHOOSE k \in keys : \A other \in keys : k <= other
         IN  <<least>> \o sorted(keys \ {least})

RECURSIVE bisect(_, _, _, _)
\* bisect.bisect_left(a, x, lo, hi), with 0-based positions as in Python
bisect(a, x, lo, hi) ==
    IF lo >= hi THEN lo
    ELSE LET mid == (lo + hi) \div 2
         IN  IF a[mid + 1] < x THEN bisect(a, x, mid + 1, hi)
                               ELSE bisect(a, x, lo, mid)

\* bisect.bisect_left(a, x)
bisect_left(a, x) == bisect(a, x, 0, Len(a))

\* the loop of sync, lines 48-53: the paths handed to upload_file
to_upload(paths, keys) ==
    LET object_keys == sorted(keys)
        object_keys_length == Len(object_keys)
    IN  {path \in paths : bisect_left(object_keys, path) = object_keys_length}

\* no sync() call so far, an empty source folder and an empty bucket
IdleSync ==
    /\ local_paths = {}
    /\ bucket = {}
    /\ upload_calls = {}
    /\ sync_pc = "ready"

\* any source folder, any bucket
InitSync ==
    /\ local_paths \in SUBSET Keys
    /\ bucket \in SUBSET Keys
    /\ upload_calls = {}
    /\ sync_pc = "ready"

\* S3Sync.sync(source, dest)
Sync ==
    /\ sync_pc = "ready"
    /\ upload_calls' = to_upload(local_paths, bucket)
    /\ bucket' = bucket \cup to_upload(local_paths, bucket)
    /\ sync_pc' = "done"
    /\ UNCHANGED local_paths

(***************************************************************************)
(* Composition.save and ComposeWorker.run (composition.py, composer.py).   *)
(***************************************************************************)
\* the parameters of compose(), compose.py lines 68-70
compose_parameters == {"items", "template", "options", "output", "verbose"}

\* the keyword arguments of the compose() call of Composition.render, line 90
render_keywords == {"output", "svg_output_path"}

\* Python's binding of a call: a keyword argument that names no parameter
\* raises TypeError before the body of the function runs
bind_error(keywords, parameters) ==
    IF keywords \subseteq parameters THEN "" ELSE "TypeError"

\* Composition.filter_items with the predicate "the layer is of this type"
filter_items(items, type) == SelectSeq(items, LAMBDA x : x.layer.type = type)

\* Composition.primary_item: the error it raises, if any
primary_item_error(items) ==
    IF Len(filter_items(items, "PRIMARY")) > 1 THEN "CompositionError"
    ELSE IF Len(filter_items(items, "PRIMARY")) = 0 THEN "IndexError"
    ELSE ""

\* Composition.render: the error it raises, if any
render_error(items) ==
    IF primary_item_error(items) # "" THEN primary_item_error(items)
    ELSE IF bind_error(render_keywords, compose_parameters) # ""
         THEN bind_error(render_keywords, compose_parameters)
    ELSE IF render_to_bytes.raised # "" THEN render_to_bytes.raised
    ELSE items_error(render_to_bytes.bytes, items)

\* Composition.extract_zoom: the error it raises, if any; a template without a
\* ZOOM_SELECTION layer makes it return at once
extract_zoom_error(fails) ==
    IF IsNone(_get_layer_by_type(layers, "ZOOM_SELECTION")) THEN ""
    ELSE IF fails THEN "ExtractingZoomError"
    ELSE ""

\* Composition.save: the steps it completes and the error that ends it, if any
Composition_save(items, fails) ==
    IF primary_item_error(items) # ""
    THEN [raised |-> primary_item_error(items), steps |-> <<>>]
    ELSE IF render_error(items) # ""
    THEN [raised |-> render_error(items), steps |-> <<"mkdir">>]
    ELSE IF extract_zoom_error(fails) # ""
    THEN [raised |-> extract_zoom_error(fails), steps |-> <<"mkdir", "render">>]
    ELSE [raised |-> "",
          steps |-> <<"mkdir", "render", "extract_zoom", "save_presentation",
                      "save_background", "save_clipping", "save_secondary_items">>]

\* the compositions of a batch: one that fits the template, one with two items
\* on a layer, one whose layer is no slot of the template, one whose asset is
\* not on disk
BatchCompositions ==
    LET geom == CHOOSE g \in Geometries : TRUE
        slot(n) == Layer(geom.pos, geom.size, "PRIMARY", n)
    IN  { << CompositionItem("P1.png", slot(0)) >>,
          << CompositionItem("P1.png", slot(0)), CompositionItem("P1.png", slot(0)) >>,
          << CompositionItem("P1.png", slot(1)) >>,
          << CompositionItem("missing.png", slot(0)) >> }

\* no batch
IdleRun ==
    /\ batch = <<>>
    /\ upload_to_s3 = FALSE
    /\ zoom_fails = FALSE
    /\ run_i = 1
    /\ run_pc = "done"
    /\ events = <<>>
    /\ save_log = <<>>

\* ComposeWorker.__init__, for a template with a background, a PRIMARY slot and
\* perhaps a zoom selection
InitRun ==
    /\ batch \in UNION {[1..n -> BatchCompositions] : n \in 0..MaxBatch}
    /\ upload_to_s3 \in BOOLEAN
    /\ zoom_fails \in BOOLEAN
    /\ run_i = 1
    /\ run_pc = "loop"
    /\ events = <<>>
    /\ save_log = <<>>
    /\ local_paths \in SUBSET Keys
    /\ bucket = {}
    /\ upload_calls = {}
    /\ sync_pc = "ready"
    /\ \E zoom \in BOOLEAN, geom \in Geometries :
          LET primary == Layer(geom.pos, geom.size, "PRIMARY", 0)
              selection == Layer(geom.pos, geom.size, "ZOOM_SELECTION", 0)
              made == IF zoom THEN <<primary, selection>> ELSE <<primary>>
          IN  /\ layers = made
              /\ background = [path |-> "bg.png"]
              /\ base_svg = Figure(Size(1500, 1500), "bg.png")
              /\ loaded_from_file = FALSE
              /\ str_representation = None
              /\ layer_map_to_item = {LayerKey(made[i]) : i \in 1..Len(made)}
              /\ _type_counter = [t \in LayerType |-> CountType(made, t)]
              /\ created_ids = {LayerKey(made[i]) : i \in 1..Len(made)}
              /\ n_created = Len(made)
              /\ last_call = Call("add_layer", made[Len(made)].type, "ok")

\* one turn of the for loop of ComposeWorker.run: a composition that is not
\* valid is passed over; a valid one is saved and announced, and an error of
\* save() ends run()
RunStep ==
    /\ run_pc = "loop"
    /\ run_i <= Len(batch)
    /\ IF ~is_valid(batch[run_i])
       THEN /\ run_i' = run_i + 1
            /\ UNCHANGED <<run_pc, events, save_log>>
       ELSE LET saved == Composition_save(batch[run_i], zoom_fails)
            IN  /\ save_log' = Append(save_log, [index |-> run_i,
                                                 raised |-> saved.raised,
                                                 steps |-> saved.steps])
                /\ IF saved.raised = ""
                   THEN /\ events' = Append(events, <<"composition_ready", run_i>>)
                        /\ run_i' = run_i + 1
                        /\ UNCHANGED run_pc
                   ELSE /\ run_pc' = "raised"
                        /\ UNCHANGED <<events, run_i>>
    /\ UNCHANGED <<batch, upload_to_s3, zoom_fails>>
    /\ UNCHANGED <<gen_vars, val_vars, tpl_vars, rnd_vars, s3_vars, fit_vars, aux_vars>>

\* ComposeWorker.run after the loop, with upload_to_s3 set
RunUpload ==
    /\ run_pc = "loop"
    /\ run_i > Len(batch)
    /\ upload_to_s3
    /\ Sync
    /\ events' = events \o << <<"composition_uploading_to_s3">>,
                              <<"composition_uploaded_to_s3">> >>
    /\ run_pc' = "synced"
    /\ UNCHANGED <<batch, upload_to_s3, zoom_fails, run_i, save_log>>
    /\ UNCHANGED <<gen_vars, val_vars, tpl_vars, rnd_vars, fit_vars, aux_vars>>

\* composition_finished emitted as soon as the loop is over, upload or not
RunFinish_before_upload ==
    /\ run_pc = "loop"
    /\ run_i > Len(batch)
    /\ events' = Append(events, <<"composition_finished">>)
    /\ run_pc' = "done"
    /\ UNCHANGED <<batch, upload_to_s3, zoom_fails, run_i, save_log>>
    /\ UNCHANGED <<gen_vars, val_vars, tpl_vars, rnd_vars, s3_vars, fit_vars, aux_vars>>

\* ComposeWorker.run, its last line
RunFinish ==
    /\ \/ run_pc = "synced"
       \/ run_pc = "loop" /\ run_i > Len(batch) /\ ~upload_to_s3
    /\ events' = Append(events, <<"composition_finished">>)
    /\ run_pc' = "done"
    /\ UNCHANGED <<batch, upload_to_s3, zoom_fails, run_i, save_log>>
    /\ UNCHANGED <<gen_vars, val_vars, tpl_vars, rnd_vars, s3_vars, fit_vars, aux_vars>>

(***************************************************************************)
(* Python floats: binary floating point with round-to-nearest-even. A      *)
(* float is m * 2^e with m = 0 or 2^(MantissaBits-1) <= |m| <               *)
(* 2^MantissaBits (CPython: 53 bits); the exponent range is not limited.    *)
(***************************************************************************)
RECURSIVE Pow2(_)
Pow2(n) == IF n = 0 THEN 1 ELSE 2 * Pow2(n - 1)

Sign(k) == IF k < 0 THEN -1 ELSE 1
Abs(k) == IF k < 0 THEN -k ELSE k

Float(m, e) == [m |-> m, e |-> e]

RECURSIVE normalize(_, _, _)
\* n/d * 2^e rewritten so that 2^(MantissaBits-1) <= n/d < 2^MantissaBits
normalize(n, d, e) ==
    IF n >= d * Pow2(MantissaBits) THEN normalize(n, 2 * d, e + 1)
    ELSE IF n < d * Pow2(MantissaBits - 1) THEN normalize(2 * n, d, e - 1)
    ELSE <<n, d, e>>

\* n/d rounded to the nearest integer, a tie to the even one
round_half_even(n, d) ==
    LET q == n \div d
        rem == n % d
    IN  IF 2 * rem > d \/ (2 * rem = d /\ q % 2 = 1) THEN q + 1 ELSE q

\* the float nearest to sign * n/d * 2^e
round_to_float(sign, n, d, e) ==
    IF n = 0 THEN Float(0, 0)
    ELSE LET t == normalize(n, d, e)
             q == round_half_even(t[1], t[2])
         IN  IF q = Pow2(MantissaBits)
             THEN Float(sign * Pow2(MantissaBits - 1), t[3] + 1)
             ELSE Float(sign * q, t[3])

\* float(k) for an int k
from_int(k) == round_to_float(Sign(k), Abs(k), 1, 0)

\* a + b before rounding, as an integer n and an exponent e: n * 2^e
exact_sum(a, b) ==
    LET e == IF a.e < b.e THEN a.e ELSE b.e
    IN  [n |-> a.m * Pow2(a.e - e) + b.m * Pow2(b.e - e), e |-> e]

fneg(a) == Float(-a.m, a.e)
fabs(a) == Float(Abs(a.m), a.e)

\* a + b, a - b, a * b, a / b and a < b on floats
fadd(a, b) ==
    round_to_float(Sign(exact_sum(a, b).n), Abs(exact_sum(a, b).n), 1, exact_sum(a, b).e)
fsub(a, b) == fadd(a, fneg(b))
fmul(a, b) == round_to_float(Sign(a.m) * Sign(b.m), Abs(a.m * b.m), 1, a.e + b.e)
fdiv(a, b) == round_to_float(Sign(a.m) * Sign(b.m), Abs(a.m), Abs(b.m), a.e - b.e)
flt(a, b) == exact_sum(a, fneg(b)).n < 0

(***************************************************************************)
(* min_resize (composer_core/composer/common.py).                          *)
(***************************************************************************)
\* Rectangle = namedtuple('Rectangle', 'width, height')
Rectangle(width, height) == [width |-> width, height |-> height]

\* min_resize with the height change applied twice
min_resize_twice_x(r, ratio) ==
    LET x == fdiv(fsub(r.width, fmul(r.height, ratio)), ratio)
        y == fdiv(fsub(r.height, fmul(r.width, ratio)), ratio)
    IN  IF flt(fabs(x), fabs(y))
        THEN Rectangle(r.width, fadd(fadd(r.height, x), x))
        ELSE Rectangle(fadd(fadd(r.width, y), y), r.height)

\* min_resize(r, ratio)
min_resize(r, ratio) ==
    LET x == fdiv(fsub(r.width, fmul(r.height, ratio)), ratio)
        y == fdiv(fsub(r.height, fmul(r.width, ratio)), ratio)
    IN  IF flt(fabs(x), fabs(y))
        THEN Rectangle(r.width, fadd(r.height, x))
        ELSE Rectangle(fadd(r.width, y), r.height)

\* no min_resize call
IdleFit ==
    /\ fit_r = Rectangle(from_int(1), from_int(1))
    /\ fit_ratio = from_int(1)
    /\ fit_once = None
    /\ fit_twice = None

\* the image sizes and the ratios desired_size_width / desired_size_height
\* that dropEvent hands to min_resize
InitFit ==
    /\ \E w \in 1..MaxSide, h \in 1..MaxSide :
          fit_r = Rectangle(from_int(w), from_int(h))
    /\ \E dw \in 1..MaxTarget, dh \in 1..MaxTarget :
          fit_ratio = fdiv(from_int(dw), from_int(dh))
    /\ fit_once = None
    /\ fit_twice = None

\* r_resize = min_resize(r, ratio)
MinResize ==
    /\ fit_once = None
    /\ fit_once' = min_resize(fit_r, fit_ratio)
    /\ UNCHANGED <<fit_r, fit_ratio, fit_twice>>

\* min_resize applied to its own result
MinResizeAgain ==
    /\ fit_once # None
    /\ fit_twice = None
    /\ fit_twice' = min_resize(fit_once, fit_ratio)
    /\ UNCHANGED <<fit_r, fit_ratio, fit_once>>

(***************************************************************************)
(* Python strings as tuples of characters, and the str, pathlib and re     *)
(* calls of compute_output_name.                                           *)
(***************************************************************************)
Digits == {"1", "2"}
\* the characters \w matches
WordChars == {"A", "B", "g", "w"} \cup Digits \cup {"_"}

RECURSIVE find(_, _, _)
\* str.find(sub, start): the first index >= start where sub begins, 0 if none
find(str, sub, start) ==
    IF start + Len(sub) - 1 > Len(str) THEN 0
    ELSE IF SubSeq(str, start, start + Len(sub) - 1) = sub THEN start
    ELSE find(str, sub, start + 1)

RECURSIVE rfind(_, _, _)
\* str.rfind(char) from index i down, 0 if none
rfind(str, char, i) ==
    IF i = 0 THEN 0 ELSE IF str[i] = char THEN i ELSE rfind(str, char, i - 1)

RECURSIVE replace(_, _, _)
\* str.replace(old, new): every occurrence, left to right
replace(str, old, new) ==
    IF old = <<>>
    THEN IF str = <<>> THEN new ELSE new \o <<Head(str)>> \o replace(Tail(str), old, new)
    ELSE IF find(str, old, 1) = 0 THEN str
    ELSE SubSeq(str, 1, find(str, old, 1) - 1) \o new
             \o replace(SubSeq(str, find(str, old, 1) + Len(old), Len(str)), old, new)

\* str.split('_')[0]
split_first(str) ==
    IF find(str, <<"_">>, 1) = 0 THEN str ELSE SubSeq(str, 1, find(str, <<"_">>, 1) - 1)

RECURSIVE join(_, _)
\* sep.join(parts)
join(sep, parts) ==
    IF parts = <<>> THEN <<>>
    ELSE IF Len(parts) = 1 THEN parts[1]
    ELSE parts[1] \o sep \o join(sep, Tail(parts))

\* PurePath.suffix of a file name: from the last dot on, empty when there is
\* no dot, when the only dot leads the name or when the name ends in a dot
Path_suffix(name) ==
    LET i == rfind(name, ".", Len(name))
    IN  IF i <= 1 \/ i = Len(name) THEN <<>> ELSE SubSeq(name, i, Len(name))

RECURSIVE span(_, _, _)
\* the end of the longest run of characters of the set that starts at index i
\* (i - 1 when there is none)
span(str, chars, i) ==
    IF i > Len(str) \/ str[i] \notin chars THEN i - 1 ELSE span(str, chars, i + 1)

\* the patterns of the model: '.*' (the default of compute_output_name),
\* '(.*)', '\d+', '(\w+-)([\w-]+)' (the default of the settings) and '(\d+)?.*'
Patterns == {".*", "(.*)", "\\d+", "(\\w+-)([\\w-]+)", "(\\d+)?.*"}

\* re.match(pattern, string): None, or the match with group() and groups()
\* (a group that took no part in the match is None)
re_match(pattern, str) ==
    LET digits == span(str, Digits, 1)
        word == span(str, WordChars, 1)
        rest == span(str, WordChars \cup {"-"}, word + 2)
    IN  CASE pattern = ".*" -> [group |-> str, groups |-> <<>>]
          [] pattern = "(.*)" -> [group |-> str, groups |-> <<str>>]
          [] pattern = "\\d+" ->
                IF digits = 0 THEN None
                ELSE [group |-> SubSeq(str, 1, digits), groups |-> <<>>]
          [] pattern = "(\\w+-)([\\w-]+)" ->
                IF word = 0 \/ word + 1 > Len(str) \/ rest < word + 2 THEN None
                ELSE IF str[word + 1] # "-" THEN None
                ELSE [group |-> SubSeq(str, 1, rest),
                      groups |-> <<SubSeq(str, 1, word + 1), SubSeq(str, word + 2, rest)>>]
          [] pattern = "(\\d+)?.*" ->
                [group |-> str,
                 groups |-> <<IF digits = 0 THEN None ELSE SubSeq(str, 1, digits)>>]

(***************************************************************************)
(* compute_output_name (composer_core/composer/composition.py).            *)
(***************************************************************************)
\* despeluze_item_name: the file name with every occurrence of its suffix
\* taken out
despeluze_item_name(item) ==
    replace(item.image_path, Path_suffix(item.image_path), <<>>)

\* Composition.presentation_item: the error it raises, if any
presentation_item_error(items) ==
    IF Len(filter_items(items, "PRESENTATION")) > 1 THEN "CompositionError" ELSE ""

\* Composition.presentation_item
presentation_item(items) ==
    IF filter_items(items, "PRESENTATION") = <<>> THEN None
    ELSE filter_items(items, "PRESENTATION")[1]

\* compute_output_name(composition, extension, patterns, append_bg_name_as_suffix):
\* the string it returns or the error that ends it
compute_output_name(items, extension, patterns, append_bg_name_as_suffix, bg) ==
    LET main_product_match ==
            re_match(patterns.primary,
                     split_first(despeluze_item_name(filter_items(items, "PRIMARY")[1])))
        main_product_name ==
            IF ~IsNone(main_product_match) THEN main_product_match.group ELSE <<>>
        presentation_name_match ==
            re_match(patterns.presentation,
                     IF ~IsNone(presentation_item(items))
                     THEN despeluze_item_name(presentation_item(items))
                     ELSE <<>>)
        presentation_name ==
            IF ~IsNone(presentation_name_match)
            THEN presentation_name_match.groups[Len(presentation_name_match.groups)]
            ELSE <<>>
        secondary_items_names ==
            List([i \in 1..Len(filter_items(items, "SECONDARY")) |->
                     split_first(despeluze_item_name(filter_items(items, "SECONDARY")[i]))])
        matched == SelectSeq(secondary_items_names,
                             LAMBDA n : ~IsNone(re_match(patterns.secondary, n)))
        _secondary_products ==
            List([i \in 1..Len(matched) |-> re_match(patterns.secondary, matched[i]).group])
        name_components ==
            SelectSeq(<<main_product_name, presentation_name,
                        join(<<"_">>, _secondary_products)>>,
                      LAMBDA x : x # <<>>)
        result == join(<<"_">>, name_components) \o <<".">> \o extension
        bg_name == replace(bg, Path_suffix(bg), <<>>)
    IN  IF primary_item_error(items) # ""
        THEN [raised |-> primary_item_error(items)]
        ELSE IF presentation_item_error(items) # ""
        THEN [raised |-> presentation_item_error(items)]
        ELSE IF ~IsNone(presentation_name_match) /\ presentation_name_match.groups = <<>>
        THEN [raised |-> "IndexError"]
        ELSE IF IsNone(presentation_name)
        THEN [raised |-> "TypeError"]
        ELSE IF ~append_bg_name_as_suffix
        THEN [raised |-> "", value |-> result]
        ELSE IF IsNone(bg)
        THEN [raised |-> "AttributeError"]
        ELSE [raised |-> "",
              value |-> replace(result, Path_suffix(result),
                                <<".">> \o bg_name \o Path_suffix(result))]

\* the asset files of the model: 'A1_B.w', '12.w', 'A-1B.w', 'B_1.w'
AssetNames ==
    { <<"A", "1", "_", "B", ".", "w">>, <<"1", "2", ".", "w">>,
      <<"A", "-", "1", "B", ".", "w">>, <<"B", "_", "1", ".", "w">> }

\* the extension 'w'
Extension == <<"w">>

\* a composition the generator can yield: one primary item, at most one
\* presentation item and at most one secondary item
NamedCompositions ==
    { <<CompositionItem(a, [type |-> "PRIMARY", ordinal |-> 0])>> \o pres \o sec :
        a \in AssetNames,
        pres \in {<<>>} \cup
                 {<<CompositionItem(b, [type |-> "PRESENTATION", ordinal |-> 0])>> :
                      b \in AssetNames},
        sec \in {<<>>} \cup
                {<<CompositionItem(c, [type |-> "SECONDARY", ordinal |-> 0])>> :
                     c \in AssetNames} }

\* no compute_output_name call
IdleName ==
    /\ name_items = <<>>
    /\ name_patterns = [primary |-> ".*", presentation |-> ".*", secondary |-> ".*"]
    /\ name_background = None
    /\ name_append_bg = FALSE
    /\ name_result = None

InitName ==
    /\ name_items \in NamedCompositions
    /\ name_patterns \in [primary : {".*", "\\d+"},
                          presentation : Patterns,
                          secondary : {".*", "\\d+"}]
    /\ name_background \in {None, <<"g", ".", "w">>}
    /\ name_append_bg \in BOOLEAN
    /\ name_result = None

\* compute_output_name(composition, ...)
ComputeOutputName ==
    /\ name_result = None
    /\ name_result' = compute_output_name(name_items, Extension, name_patterns,
                                          name_append_bg, name_background)
    /\ UNCHANGED <<name_items, name_patterns, name_background, name_append_bg>>

(***************************************************************************)
(* Composition.extract_zoom_foreground.                                    *)
(***************************************************************************)
\* int(x) for a float x: the fraction is cut off
to_int(a) ==
    IF a.e >= 0 THEN a.m * Pow2(a.e)
    ELSE Sign(a.m) * (Abs(a.m) \div Pow2(-a.e))

\* lines 190-212: the rectangle (left, top, right, bottom) given to crop
crop_rectangle(zoom, primary, scale, image) ==
    LET dx0 == zoom.pos.x - primary.pos.x
        dy0 == zoom.pos.y - primary.pos.y
        dx == fdiv(from_int(IF dx0 < 0 THEN 0 ELSE dx0), scale)
        dy == fdiv(from_int(IF dy0 < 0 THEN 0 ELSE dy0), scale)
        bottom0 == fadd(dy, fdiv(from_int(zoom.size.height), scale))
        right0 == fadd(dx, fdiv(from_int(zoom.size.width), scale))
        bottom == IF flt(from_int(image.height), bottom0)
                  THEN from_int(image.height) ELSE bottom0
        right == IF flt(from_int(image.width), right0)
                 THEN from_int(image.width) ELSE right0
    IN  [left |-> to_int(dx), top |-> to_int(dy),
         right |-> to_int(right), bottom |-> to_int(bottom)]

\* the scale factors of the primary item: 0.5, 1.0 and 2.0
ScaleFactors == {fdiv(from_int(1), from_int(2)), from_int(1), from_int(2)}

\* no zoom extraction
IdleCrop ==
    /\ crop_zoom_layer = [pos |-> [x |-> 0, y |-> 0], size |-> [width |-> 1, height |-> 1]]
    /\ crop_primary_layer = [pos |-> [x |-> 0, y |-> 0]]
    /\ crop_scale_factor = from_int(1)
    /\ crop_original_image = [width |-> 1, height |-> 1]
    /\ crop_call = None

\* a zoom selection and a primary layer anywhere on the scene, a primary
\* image of any size
InitCrop ==
    /\ crop_zoom_layer \in [pos : [x : 0..MaxCoord, y : 0..MaxCoord],
                        size : [width : 1..MaxCoord, height : 1..MaxCoord]]
    /\ crop_primary_layer \in [pos : [x : 0..MaxCoord, y : 0..MaxCoord]]
    /\ crop_scale_factor \in ScaleFactors
    /\ crop_original_image \in [width : 1..MaxCoord, height : 1..MaxCoord]
    /\ crop_call = None

\* Composition.extract_zoom_foreground, up to image.crop
ExtractZoomForeground ==
    /\ crop_call = None
    /\ crop_call' = crop_rectangle(crop_zoom_layer, crop_primary_layer,
                                   crop_scale_factor, crop_original_image)
    /\ UNCHANGED <<crop_zoom_layer, crop_primary_layer, crop_scale_factor, crop_original_image>>

(***************************************************************************)
(* The Composer window and its workers (composer.py). A generate request   *)
(* runs in the window's thread, ComposeWorker.run in the thread the        *)
(* request started; the signals of a worker reach the window's slots       *)
(* through the window's event queue.                                       *)
(***************************************************************************)
\* ComposeWorker.__init__, and where its run() stands: "loop" between two
\* compositions, "saving" inside Composition.save, "synced", "done", "raised";
\* thread is the QThread the worker was moved to
Worker(batch_list, options) ==
    [compositions |-> batch_list, upload_to_s3 |-> options, i |-> 1, pc |-> "loop",
     thread |-> "running"]

\* ui.progressBar.setValue, setMinimum and setMaximum
setValue(bar, value) == [bar EXCEPT !.value = value]
setMinimum(bar, minimum) == [bar EXCEPT !.minimum = minimum]
setMaximum(bar, maximum) == [bar EXCEPT !.maximum = maximum]

\* a signal of worker w on its way to the window
Signal(name, w) == [signal |-> name, worker |-> w]

\* the batches list(composition_builder.compose()) may hand to a worker
Batches == UNION {[1..n -> BatchCompositions] : n \in 0..MaxBatch}

\* the QThread that Composer._composition_thread refers to is running: the
\* one made by Composer.__init__ is never started
thread_running(ws, t) == t # 0 /\ ws[t].thread = "running"

\* the workers inside Composition.save
saving(ws) == {w \in 1..Len(ws) : ws[w].pc = "saving"}

\* no window
IdleGui ==
    /\ workers = <<>>
    /\ composition_thread = 0
    /\ process = "aborted"
    /\ gui_queue = <<>>
    /\ progressBar = [value |-> 0, minimum |-> 0, maximum |-> 100]

\* Composer.__init__, for a template with a background, a PRIMARY slot and
\* perhaps a zoom selection, and an output folder
InitGui ==
    /\ workers = <<>>
    /\ composition_thread = 0
    /\ process = "running"
    /\ gui_queue = <<>>
    /\ progressBar = [value |-> 0, minimum |-> 0, maximum |-> 100]
    /\ local_paths \in {{}, Keys}
    /\ bucket = {}
    /\ upload_calls = {}
    /\ sync_pc = "ready"
    /\ \E zoom \in BOOLEAN, geom \in Geometries :
          LET primary == Layer(geom.pos, geom.size, "PRIMARY", 0)
              selection == Layer(geom.pos, geom.size, "ZOOM_SELECTION", 0)
              made == IF zoom THEN <<primary, selection>> ELSE <<primary>>
          IN  /\ layers = made
              /\ background = [path |-> "bg.png"]
              /\ base_svg = Figure(Size(1500, 1500), "bg.png")
              /\ loaded_from_file = FALSE
              /\ str_representation = None
              /\ layer_map_to_item = {LayerKey(made[i]) : i \in 1..Len(made)}
              /\ _type_counter = [t \in LayerType |-> CountType(made, t)]
              /\ created_ids = {LayerKey(made[i]) : i \in 1..Len(made)}
              /\ n_created = Len(made)
              /\ last_call = Call("add_layer", made[Len(made)].type, "ok")

\* Composer.on_generate_button_clicked: nothing in it looks at the worker of
\* an earlier request. Rebinding _composition_thread drops the only reference
\* to the earlier QThread; when that thread still runs, the build decides
\* whether the process survives the destruction of the thread object
on_generate_button_clicked ==
    /\ process = "running"
    /\ Len(workers) < MaxRequests
    /\ \E batch_list \in Batches, options \in BOOLEAN :
          /\ progressBar' = setMaximum(setMinimum(setValue(progressBar, 0), 0),
                                       Len(batch_list))
          /\ workers' = Append(workers, Worker(batch_list, options))
    /\ composition_thread' = Len(workers) + 1
    /\ process' \in IF thread_running(workers, composition_thread)
                    THEN {"running", "aborted"}
                    ELSE {"running"}
    /\ UNCHANGED gui_queue
    /\ UNCHANGED <<gen_vars, val_vars, tpl_vars, rnd_vars, s3_vars, run_vars, fit_vars,
                   name_vars, crop_vars>>

\* one turn of the for loop of ComposeWorker.run, up to the call of save: a
\* composition that is not valid is passed over
WorkerStep(w) ==
    /\ process = "running"
    /\ workers[w].pc = "loop"
    /\ workers[w].i <= Len(workers[w].compositions)
    /\ IF ~is_valid(workers[w].compositions[workers[w].i])
       THEN workers' = [workers EXCEPT ![w].i = @ + 1]
       ELSE workers' = [workers EXCEPT ![w].pc = "saving"]
    /\ UNCHANGED <<composition_thread, process, gui_queue, progressBar>>
    /\ UNCHANGED <<gen_vars, val_vars, tpl_vars, rnd_vars, s3_vars, run_vars, fit_vars,
                   name_vars, crop_vars>>

\* the end of Composition.save in run(): composition_ready is emitted when it
\* returns; an error it raises leaves run(), and the build decides whether an
\* exception that leaves a slot ends the process
WorkerSaved(w) ==
    /\ process = "running"
    /\ workers[w].pc = "saving"
    /\ LET saved == Composition_save(workers[w].compositions[workers[w].i], zoom_fails)
       IN  IF saved.raised = ""
           THEN /\ workers' = [workers EXCEPT ![w].pc = "loop", ![w].i = @ + 1]
                /\ gui_queue' = Append(gui_queue, Signal("composition_ready", w))
                /\ UNCHANGED process
           ELSE /\ workers' = [workers EXCEPT ![w].pc = "raised"]
                /\ process' \in {"running", "aborted"}
                /\ UNCHANGED gui_queue
    /\ UNCHANGED <<composition_thread, progressBar>>
    /\ UNCHANGED <<gen_vars, val_vars, tpl_vars, rnd_vars, s3_vars, run_vars, fit_vars,
                   name_vars, crop_vars>>

\* ComposeWorker.run after the loop, with upload_to_s3 set: a new S3Sync and
\* its sync()
WorkerUpload(w) ==
    /\ process = "running"
    /\ workers[w].pc = "loop"
    /\ workers[w].i > Len(workers[w].compositions)
    /\ workers[w].upload_to_s3
    /\ upload_calls' = to_upload(local_paths, bucket)
    /\ bucket' = bucket \cup to_upload(local_paths, bucket)
    /\ sync_pc' = "done"
    /\ gui_queue' = gui_queue \o <<Signal("composition_uploading_to_s3", w),
                                   Signal("composition_uploaded_to_s3", w)>>
    /\ workers' = [workers EXCEPT ![w].pc = "synced"]
    /\ UNCHANGED <<local_paths, composition_thread, process, progressBar>>
    /\ UNCHANGED <<gen_vars, val_vars, tpl_vars, rnd_vars, run_vars, fit_vars,
                   name_vars, crop_vars>>

\* ComposeWorker.run, its last line
WorkerFinish(w) ==
    /\ process = "running"
    /\ \/ workers[w].pc = "synced"
       \/ /\ workers[w].pc = "loop"
          /\ workers[w].i > Len(workers[w].compositions)
          /\ ~workers[w].upload_to_s3
    /\ gui_queue' = Append(gui_queue, Signal("composition_finished", w))
    /\ workers' = [workers EXCEPT ![w].pc = "done"]
    /\ UNCHANGED <<composition_thread, process, progressBar>>
    /\ UNCHANGED <<gen_vars, val_vars, tpl_vars, rnd_vars, s3_vars, run_vars, fit_vars,
                   name_vars, crop_vars>>

\* the window handles the oldest signal: on_composition_ready, busy_mode,
\* normal_mode, and for composition_finished the quit of the worker's thread
\* and on_generation_complete
Deliver ==
    /\ process = "running"
    /\ gui_queue # <<>>
    /\ LET head == Head(gui_queue)
       IN  CASE head.signal = "composition_ready" ->
                    /\ progressBar' = setValue(progressBar, progressBar.value + 1)
                    /\ UNCHANGED workers
             [] head.signal = "composition_uploading_to_s3" ->
                    /\ progressBar' = setMinimum(setMaximum(progressBar, 0), 0)
                    /\ UNCHANGED workers
             [] head.signal = "composition_uploaded_to_s3" ->
                    /\ progressBar' = setMaximum(progressBar, 100)
                    /\ UNCHANGED workers
             [] head.signal = "composition_finished" ->
                    /\ workers' = [workers EXCEPT ![head.worker].thread = "finished"]
                    /\ progressBar' = setValue(progressBar, 0)
    /\ gui_queue' = Tail(gui_queue)
    /\ UNCHANGED <<composition_thread, process>>
    /\ UNCHANGED <<gen_vars, val_vars, tpl_vars, rnd_vars, s3_vars, run_vars, fit_vars,
                   name_vars, crop_vars>>

IdleAux == IdleName /\ IdleCrop /\ IdleGui

IdleExt == IdleSync /\ IdleRun /\ IdleFit /\ IdleAux


(***************************************************************************)
(* The specifications.                                                     *)
(***************************************************************************)
NextGen == Compose /\ UNCHANGED <<val_vars, tpl_vars, rnd_vars, ext_vars>>

InitSpecGen == InitGen /\ IdleValid /\ InitTemplate /\ IdleRender /\ IdleExt

SpecGen == InitSpecGen /\ [][NextGen]_vars

NextValid == IsValidCall /\ UNCHANGED <<gen_vars, tpl_vars, rnd_vars, ext_vars>>

InitSpecValid == IdleGen /\ InitValid /\ InitTemplate /\ IdleRender /\ IdleExt

NextTemplate ==
    \/ NewTemplate
    \/ \E type \in LayerType, geom \in Geometries : AddLayer(type, geom)
    \/ \E item \in layer_map_to_item : RemoveLayerForItem(item)
    \/ \E item \in layer_map_to_item, geom \in MovedGeometries : UpdateLayer(item, geom)
    \/ \E path \in BackgroundPaths, size \in BackgroundSizes : SetBackground(path, size)
    \/ RemoveBackground
    \/ RenderToBytes
    \/ \E file \in TemplateFiles : LoadFromFile(file)

InitSpecTemplate == IdleGen /\ IdleValid /\ InitTemplate /\ IdleRender /\ IdleExt

SpecTemplate == InitSpecTemplate /\ [][NextTemplate]_vars

NextRender ==
    \E items \in ComposeItems, output \in OutputFiles, override_images \in BOOLEAN,
       unsharp \in BOOLEAN, target \in ResizeTargets, source \in RasterSizes :
        ComposeCall(items, output, override_images, unsharp, target, source)

InitSpecRender == IdleGen /\ IdleValid /\ InitRender /\ IdleExt

SpecRender == InitSpecRender /\ [][NextRender]_vars

SpecValid == InitSpecValid /\ [][NextValid]_vars

NextSync == Sync /\ UNCHANGED <<gen_vars, val_vars, tpl_vars, rnd_vars, run_vars, fit_vars, aux_vars>>

InitSpecSync == IdleGen /\ IdleValid /\ InitTemplate /\ IdleRender /\ InitSync /\ IdleRun /\ IdleFit /\ IdleAux

SpecSync == InitSpecSync /\ [][NextSync]_vars

NextRun == RunStep \/ RunUpload \/ RunFinish

InitSpecRun == IdleGen /\ IdleValid /\ IdleRender /\ InitRun /\ IdleFit /\ IdleAux

SpecRun == InitSpecRun /\ [][NextRun]_vars

NextFit ==
    \/ MinResize /\ UNCHANGED <<gen_vars, val_vars, tpl_vars, rnd_vars, s3_vars, run_vars, aux_vars>>
    \/ MinResizeAgain /\ UNCHANGED <<gen_vars, val_vars, tpl_vars, rnd_vars, s3_vars, run_vars, aux_vars>>

InitSpecFit == IdleGen /\ IdleValid /\ InitTemplate /\ IdleRender /\ IdleSync /\ IdleRun /\ InitFit /\ IdleAux

SpecFit == InitSpecFit /\ [][NextFit]_vars

NextName ==
    ComputeOutputName
        /\ UNCHANGED <<gen_vars, val_vars, tpl_vars, rnd_vars, s3_vars, run_vars, fit_vars,
                       crop_vars, gui_vars>>

InitSpecName ==
    /\ IdleGen /\ IdleValid /\ InitTemplate /\ IdleRender /\ IdleSync /\ IdleRun /\ IdleFit
    /\ InitName /\ IdleCrop /\ IdleGui

SpecName == InitSpecName /\ [][NextName]_vars

NextCrop ==
    ExtractZoomForeground
        /\ UNCHANGED <<gen_vars, val_vars, tpl_vars, rnd_vars, s3_vars, run_vars, fit_vars,
                       name_vars, gui_vars>>

InitSpecCrop ==
    /\ IdleGen /\ IdleValid /\ InitTemplate /\ IdleRender /\ IdleSync /\ IdleRun /\ IdleFit
    /\ IdleName /\ InitCrop /\ IdleGui

SpecCrop == InitSpecCrop /\ [][NextCrop]_vars

NextGui ==
    \/ on_generate_button_clicked
    \/ \E w \in 1..Len(workers) : WorkerStep(w)
    \/ \E w \in 1..Len(workers) : WorkerSaved(w)
    \/ \E w \in 1..Len(workers) : WorkerUpload(w)
    \/ \E w \in 1..Len(workers) : WorkerFinish(w)
    \/ Deliver

InitSpecGui ==
    /\ IdleGen /\ IdleValid /\ IdleRender /\ IdleRun /\ IdleFit /\ IdleName /\ IdleCrop
    /\ InitGui

SpecGui == InitSpecGui /\ [][NextGui]_vars

(***************************************************************************)
(* Claims about the generator (SpecGen).                                   *)
(***************************************************************************)
\* k: the number of SECONDARY layers declared on the generator's template
GenK == Len(get_secondary_layers(gen_layers))

RECURSIVE NumPermutations(_, _)
\* P(s, k) = s!/(s-k)!, zero when s < k
NumPermutations(s, k) ==
    IF k = 0 THEN 1 ELSE IF s < k THEN 0 ELSE s * NumPermutations(s - 1, k - 1)

\* C1: with presentation and secondary participation both enabled, compose()
\* yields exactly p * r * P(s, k) Compositions.
C1_Cardinality ==
    (gen_pc = "done" /\ include_presentation_items /\ include_secondary_items)
        => Len(compositions) =
               Len(primaries) * Len(presentations)
                   * NumPermutations(Len(secondaries), GenK)

\* C2: every Composition compose() yields is valid (no two of its items are
\* bound to the same layer_id).
C2_AllValid ==
    gen_pc = "done" => \A i \in 1..Len(compositions) : is_valid(compositions[i])

\* C3: with secondary participation disabled compose() yields p * r
\* Compositions (p when presentations are disabled too), none with a secondary
\* item; with it enabled, k >= 1 and fewer than k secondary assets it yields
\* none, and the call completes.
C3_DegenerateAxes ==
    gen_pc = "done" =>
        /\ ~include_secondary_items =>
              /\ Len(compositions) =
                     Len(primaries)
                         * (IF include_presentation_items THEN Len(presentations) ELSE 1)
              /\ \A i \in 1..Len(compositions) :
                     secondary_items_of(compositions[i]) = <<>>
        /\ (include_secondary_items /\ GenK >= 1 /\ Len(secondaries) < GenK) =>
              compositions = <<>>

\* C3 witness: both cases happen on non-empty pools: a disabled secondary axis
\* over a template with secondary layers, or too few secondary assets.
C3_Witness ==
    /\ gen_pc = "done"
    /\ Len(primaries) = 2
    /\ Len(presentations) = 2
    /\ GenK = 2
    /\ \/ /\ ~include_secondary_items
          /\ include_presentation_items
          /\ Len(secondaries) = 3
          /\ Len(compositions) = 4
       \/ /\ include_secondary_items
          /\ Len(secondaries) = 1
          /\ compositions = <<>>

\* C20: on a template with no SECONDARY layer and secondary participation
\* enabled, compose() yields p * r Compositions (p when presentations are
\* disabled), each with an empty secondary_items view, whatever the size of
\* the secondary pool.
C20_NoSecondaryLayers ==
    (gen_pc = "done" /\ include_secondary_items /\ GenK = 0) =>
        /\ Len(compositions) =
               Len(primaries)
                   * (IF include_presentation_items THEN Len(presentations) ELSE 1)
        /\ \A i \in 1..Len(compositions) :
               secondary_items_of(compositions[i]) = <<>>

\* C20 witness: k = 0 with two primaries, two presentations and a full pool
\* of secondaries; four Compositions are yielded.
C20_Witness ==
    /\ gen_pc = "done"
    /\ include_secondary_items
    /\ include_presentation_items
    /\ GenK = 0
    /\ Len(primaries) = 2
    /\ Len(presentations) = 2
    /\ Len(secondaries) = MaxS
    /\ Len(compositions) = 4

\* the place of an asset in its pool
PoolIndex(pool, asset) == CHOOSE i \in 1..Len(pool) : pool[i] = asset

\* (index of the primary asset, index of the presentation asset) of a yielded
\* composition; 0 stands for no presentation item
OrderKey(items) ==
    LET prim == SelectSeq(items, LAMBDA x : x.layer.type = "PRIMARY")
        pres == SelectSeq(items, LAMBDA x : x.layer.type = "PRESENTATION")
    IN  << PoolIndex(primaries, prim[1].image_path),
           IF pres = <<>> THEN 0 ELSE PoolIndex(presentations, pres[1].image_path) >>

LexLeq(a, b) == a[1] < b[1] \/ (a[1] = b[1] /\ a[2] <= b[2])

\* C23: in the yielded sequence the (primary, presentation) index pairs never
\* decrease lexicographically, and the compositions of one pair are
\* contiguous.
\* (Stated on neighbours: the pairs of positions i < j are ordered when every
\* two neighbours are, and a sequence ordered in this way has the
\* compositions of one pair next to each other.)
C23_GeneratorOrdering ==
    gen_pc = "done" =>
        \A i \in 1..(Len(compositions) - 1) :
            LexLeq(OrderKey(compositions[i]), OrderKey(compositions[i + 1]))

\* C23 witness: two primaries, two presentations and several secondary groups
\* per pair: the first composition is of pair (1, 1), the last of pair (2, 2).
C23_Witness ==
    /\ gen_pc = "done"
    /\ include_presentation_items
    /\ include_secondary_items
    /\ Len(primaries) = 2
    /\ Len(presentations) = 2
    /\ GenK = 1
    /\ Len(secondaries) = 2
    /\ Len(compositions) = 8
    /\ OrderKey(compositions[1]) = <<1, 1>>
    /\ OrderKey(compositions[2]) = <<1, 1>>
    /\ OrderKey(compositions[3]) = <<1, 2>>
    /\ OrderKey(compositions[8]) = <<2, 2>>

\* the set of (asset, layer) bindings of a composition
Bindings(items) == {<<items[i].image_path, layer_id(items[i].layer)>> : i \in 1..Len(items)}

\* C28: no two Compositions compose() yields hold the same set of
\* (asset, layer) bindings (the pools of the model hold distinct assets).
C28_NoDuplicateAssignment ==
    gen_pc = "done" =>
        \A i, j \in 1..Len(compositions) :
            i < j => Bindings(compositions[i]) # Bindings(compositions[j])

(***************************************************************************)
(* Claims about Composition.is_valid (SpecValid).                          *)
(***************************************************************************)
\* no two items of the list reference the same layer_id
DistinctLayerIds(items) ==
    \A i, j \in 1..Len(items) :
        i # j => layer_id(items[i].layer) # layer_id(items[j].layer)

\* C4: is_valid() is true if and only if no two items reference the same
\* layer_id; two items on one SECONDARY layer make it false, and a list of
\* zero or one item makes it true.
C4_IsValidIff ==
    val_pc = "done" =>
        /\ val_result <=> DistinctLayerIds(val_items)
        /\ (\E i, j \in 1..Len(val_items) :
                /\ i # j
                /\ val_items[i].layer = val_items[j].layer
                /\ val_items[i].layer.type = "SECONDARY") => ~val_result
        /\ Len(val_items) <= 1 => val_result

\* C4 witness: is_valid() has returned False for two distinct assets bound to
\* the same SECONDARY layer next to a PRIMARY item.
C4_Witness ==
    /\ val_pc = "done"
    /\ Len(val_items) = 3
    /\ val_items[1].layer.type = "PRIMARY"
    /\ val_items[2].layer = [type |-> "SECONDARY", ordinal |-> 1]
    /\ val_items[3].layer = val_items[2].layer
    /\ val_items[2].image_path # val_items[3].image_path
    /\ ~val_result

(***************************************************************************)
(* Claims about Layer and Template (SpecTemplate).                         *)
(***************************************************************************)
\* C5: no two Layer objects ever created share a (type, ordinal) pair, so the
\* layer_id and the image_id of every Layer created so far are distinct,
\* removed layers and layers of earlier templates included.
C5_IdsNeverReused ==
    /\ Cardinality(created_ids) = n_created
    /\ Cardinality({layer_id([type |-> k[1], ordinal |-> k[2]]) : k \in created_ids})
           = n_created
    /\ Cardinality({image_id([type |-> k[1], ordinal |-> k[2]]) : k \in created_ids})
           = n_created

\* C5 witness: a template loaded from a file holds a layer created after a
\* layer of the same type that it no longer holds (removed, or of an earlier
\* template).
C5_Witness ==
    /\ loaded_from_file
    /\ \E k \in created_ids :
           /\ \A i \in 1..Len(layers) : LayerKey(layers[i]) # k
           /\ \E i \in 1..Len(layers) :
                  layers[i].type = k[1] /\ layers[i].ordinal > k[2]

\* C6: the layer list never holds more than one PRIMARY, PRESENTATION,
\* ZOOM_SELECTION or CROP_SELECTION layer.
C6_AtMostOnePerType ==
    \A t \in {"PRIMARY", "PRESENTATION", "ZOOM_SELECTION", "CROP_SELECTION"} :
        CountType(layers, t) <= 1

\* what each single-result accessor returns now, by the type it asks for
SingleResult ==
    [t \in {"PRIMARY", "PRESENTATION", "ZOOM_SELECTION", "CROP_SELECTION"} |->
        CASE t = "PRIMARY" -> get_primary_layer
          [] t = "PRESENTATION" -> get_presentation_layer
          [] t = "ZOOM_SELECTION" -> get_zoom_selection_layer
          [] t = "CROP_SELECTION" -> get_crop_selection_layer]

\* C19 as stated: a single-result accessor ends in an error when the
\* template holds more than one layer of its type, returns the layer when
\* it holds exactly one, and returns None when it holds none.
C19_FailsOnSeveral ==
    \A t \in DOMAIN SingleResult :
        /\ CountType(layers, t) > 1 => "raised" \in DOMAIN SingleResult[t]
        /\ CountType(layers, t) = 1 =>
              \E i \in 1..Len(layers) :
                  layers[i].type = t /\ SingleResult[t] = layers[i]
        /\ CountType(layers, t) = 0 => SingleResult[t] = None

\* C7: on a template that was not loaded from a file and has no background,
\* add_layer of a PRIMARY, PRESENTATION or SECONDARY layer raises
\* NoBaseSvgError and leaves the layer list and the ordinal counters as they
\* were.
C7_NoBackgroundError ==
    [][ ( /\ last_call'.op = "add_layer"
          /\ last_call'.type \in ContentTypes
          /\ background = None
          /\ ~loaded_from_file )
        => ( /\ last_call'.result = "NoBaseSvgError"
             /\ layers' = layers
             /\ _type_counter' = _type_counter ) ]_vars

\* C7 witness: add_layer of a PRIMARY layer was refused on a template whose
\* background was removed after layers had been added.
C7_Witness ==
    /\ last_call = Call("add_layer", "PRIMARY", "NoBaseSvgError")
    /\ background = None
    /\ ~loaded_from_file
    /\ layers # <<>>

\* C8 as stated: on a freshly constructed template with no background,
\* add_layer of a ZOOM_SELECTION or CROP_SELECTION layer succeeds and appends a
\* SelectionLayer.
C8_SelectionNeedsNoBackground ==
    [][ ( /\ last_call'.op = "add_layer"
          /\ last_call'.type \in SelectionTypes
          /\ layers = <<>>
          /\ background = None
          /\ base_svg = None
          /\ ~loaded_from_file )
        => ( /\ last_call'.result = "ok"
             /\ Len(layers') = 1
             /\ layers'[1].class = "SelectionLayer" ) ]_vars

\* C8 amended: add_layer of a ZOOM_SELECTION or CROP_SELECTION layer raises
\* NoBaseSvgError and leaves the layer list as it was on a template with no
\* background that was not loaded from a file; otherwise it succeeds and
\* appends a SelectionLayer of that type.
C8_SelectionNeedsBackground ==
    [][ ( /\ last_call'.op = "add_layer"
          /\ last_call'.type \in SelectionTypes )
        => IF base_svg = None /\ ~loaded_from_file
           THEN /\ last_call'.result = "NoBaseSvgError"
                /\ layers' = layers
           ELSE /\ last_call'.result = "ok"
                /\ Len(layers') = Len(layers) + 1
                /\ SubSeq(layers', 1, Len(layers)) = layers
                /\ layers'[Len(layers')].class = "SelectionLayer"
                /\ layers'[Len(layers')].type = last_call'.type ]_vars

\* C8 witness: add_layer of a ZOOM_SELECTION layer was refused on a freshly
\* constructed template.
C8_Witness ==
    /\ last_call = Call("add_layer", "ZOOM_SELECTION", "NoBaseSvgError")
    /\ layers = <<>>
    /\ background = None
    /\ str_representation = None
    /\ ~loaded_from_file

\* C9: whenever the template has a background, render_to_bytes() returns the
\* markup of the current background with exactly the slot snippets of the
\* current layers, never bytes cached before a change.
C9_RenderIsCurrent ==
    (base_svg # None /\ render_to_bytes.raised = "")
        => render_to_bytes.bytes = build_svg_final_figure(base_svg, layers)

\* the place of the layer with this id in a layer list, 0 when it is not there
PlaceOf(lyrs, key) ==
    IF \E i \in 1..Len(lyrs) : LayerKey(lyrs[i]) = key
    THEN CHOOSE i \in 1..Len(lyrs) : LayerKey(lyrs[i]) = key
    ELSE 0

\* C24: after every call, (1) the markup Template.render() builds holds, after
\* the background and before the closing root tag, exactly the slot snippets
\* of the layers the template holds, in the order of the layer list, and
\* (2) the layer list is in insertion order: the layers that were there
\* before the call keep their order and every layer the call added comes
\* after them.
C24_InjectionOrder ==
    [][ /\ base_svg' # None =>
              /\ build_svg_final_figure(base_svg', layers').root = base_svg'
              /\ build_svg_final_figure(base_svg', layers').body
                     = List([i \in 1..Len(layers') |-> xml(layers'[i])])
        /\ \A i, j \in 1..Len(layers') :
              (i < j /\ PlaceOf(layers, LayerKey(layers'[j])) # 0)
                  => /\ PlaceOf(layers, LayerKey(layers'[i])) # 0
                     /\ PlaceOf(layers, LayerKey(layers'[i]))
                            < PlaceOf(layers, LayerKey(layers'[j])) ]_vars

\* C24 witness: a SECONDARY layer and then a PRIMARY layer were added to a
\* template with a background, and the markup holds their snippets in that
\* order.
C24_Witness ==
    /\ base_svg # None
    /\ ~loaded_from_file
    /\ last_call = Call("add_layer", "PRIMARY", "ok")
    /\ Len(layers) = 2
    /\ layers[1].type = "SECONDARY"
    /\ build_svg_final_figure(base_svg, layers).body
           = <<xml(layers[1]), xml(layers[2])>>

\* C25: right after remove_background() the layer list is empty, and a
\* template that was not loaded from a file never holds a content layer
\* while it has no background.
C25_NoLayerOutlivesBackground ==
    /\ last_call.op = "remove_background" => layers = <<>>
    /\ (~loaded_from_file /\ background = None) =>
           \A i \in 1..Len(layers) : layers[i].type \notin ContentTypes

\* C29: right after a load_from_file that succeeded, each Layer made from an
\* element of the file has the layer_id and the image_id of that element,
\* so that the markup render_to_bytes() returns holds a placeholder for it.
C29_LoadedIdsMatchMarkup ==
    last_call = Call("load_from_file", "-", "ok") =>
        LET elements == layer_selector(str_representation)
            first == Len(layers) - Len(elements)
        IN  \A i \in 1..Len(elements) :
                /\ layer_id(layers[first + i]) = elements[i].id
                /\ image_id(layers[first + i]) = elements[i].image.id
                /\ has_image(render_to_bytes.bytes, image_id(layers[first + i]))

(***************************************************************************)
(* Claims about compose() (SpecRender).                                    *)
(***************************************************************************)
\* C10: a compose() call with override_images false whose destination file
\* exists leaves that file as it was and rasterizes nothing.
C10_OverwriteSkip ==
    [][ ( /\ compose_result'.output \in OutputFiles
          /\ ~compose_result'.override_images
          /\ fs[compose_result'.output] # None )
        => ( /\ fs'[compose_result'.output] = fs[compose_result'.output]
             /\ rasterized' = rasterized ) ]_vars

\* C18: after a compose() that succeeded with resize targets (W, H) on a
\* rasterized image of w x h: with W and H both non-zero the saved image is
\* W x H and scale_factor is 1; with exactly one of them zero scale_factor
\* is the non-zero target over the matching source dimension and the saved
\* image is int(w * factor) x int(h * factor); 1500 x 0 on 1000 x 500 gives
\* 3/2 and 1500 x 750.
C18_ResizeAndFactor ==
    (compose_result # None /\ compose_result.raised = "") =>
        LET W == compose_result.target.width
            H == compose_result.target.height
            w == compose_result.source.width
            h == compose_result.source.height
            factor == compose_result.scale_factor
            image == fs[compose_result.filename]
            goal == IF H = 0 THEN W ELSE H
            from == IF H = 0 THEN w ELSE h
        IN  /\ (W # 0 /\ H # 0) =>
                  /\ image.size = Size(W, H)
                  /\ factor.num = factor.den
            /\ ((W = 0) # (H = 0)) =>
                  /\ factor.num * from = goal * factor.den
                  /\ image.size = Size((w * goal) \div from, (h * goal) \div from)
            /\ (W = 1500 /\ H = 0 /\ w = 1000 /\ h = 500) =>
                  /\ 2 * factor.num = 3 * factor.den
                  /\ image.size = Size(1500, 750)

\* a compose() with targets 1500 x 0 on a 1000 x 500 image has succeeded
C18_Witness ==
    /\ compose_result # None
    /\ compose_result.raised = ""
    /\ compose_result.target = Size(1500, 0)
    /\ compose_result.source = Size(1000, 500)
    /\ fs[compose_result.filename].size = Size(1500, 750)

(***************************************************************************)
(* Claims about load_from_file (SpecTemplate).                             *)
(***************************************************************************)
\* the layers a new Template holds after load_from_file of what
\* render_to_bytes() returns now
RoundTrip ==
    load_layers(layer_selector(render_to_bytes.bytes), 1, <<>>, _type_counter)

\* the PRIMARY, PRESENTATION and SECONDARY layers of the template, in order
ContentLayers == SelectSeq(layers, LAMBDA l : l.type \in ContentTypes)

\* C11: for a template with a background, load_from_file of the bytes
\* render_to_bytes() returns succeeds on a new Template and gives, in the same
\* order, one layer per PRIMARY, PRESENTATION or SECONDARY layer, with the same
\* type and the same x, y, width and height (compared as written in the markup).
C11_RoundTrip ==
    base_svg # None =>
        /\ RoundTrip.raised = ""
        /\ Len(RoundTrip.layers) = Len(ContentLayers)
        /\ \A i \in 1..Len(ContentLayers) :
              /\ RoundTrip.layers[i].type = ContentLayers[i].type
              /\ Format(RoundTrip.layers[i].pos.x) = Format(ContentLayers[i].pos.x)
              /\ Format(RoundTrip.layers[i].pos.y) = Format(ContentLayers[i].pos.y)
              /\ Format(RoundTrip.layers[i].size.width) = Format(ContentLayers[i].size.width)
              /\ Format(RoundTrip.layers[i].size.height) = Format(ContentLayers[i].size.height)

\* C12: load_from_file ends without error whatever the TYPE tokens of the
\* document are, and creates one layer per element whose TYPE is PRIMARY,
\* PRESENTATION or SECONDARY and none for the others.
C12_UnknownTypesIgnored ==
    [][ last_call'.op = "load_from_file"
        => ( /\ last_call'.result = "ok"
             /\ Len(layers') - Len(layers) =
                   Len(SelectSeq(layer_selector(str_representation'),
                                 LAMBDA e : e.id[2] \in layer_type_map)) ) ]_vars

(***************************************************************************)
(* Claims about S3Sync.sync (SpecSync).                                    *)
(***************************************************************************)
\* C15: a sync() call hands to upload_file exactly the local paths that are
\* not keys of the bucket, and deletes no object of the bucket.
C15_UploadsDifference ==
    [][ (sync_pc = "ready" /\ sync_pc' = "done")
        => ( /\ upload_calls' = local_paths \ bucket
             /\ bucket \subseteq bucket' ) ]_vars

(***************************************************************************)
(* Claims about ComposeWorker.run and Composition.save (SpecRun).          *)
(***************************************************************************)
\* C13: when run() has ended, every valid composition of the batch whose own
\* save does not fail was saved and announced, whatever happened to the
\* compositions before it, and composition_finished was emitted.
C13_FailureIsolation ==
    run_pc \in {"done", "raised"} =>
        /\ \E n \in 1..Len(events) : events[n] = <<"composition_finished">>
        /\ \A i \in 1..Len(batch) :
              (is_valid(batch[i]) /\ Composition_save(batch[i], zoom_fails).raised = "")
                  => \E n \in 1..Len(events) : events[n] = <<"composition_ready", i>>

\* C14: on a template with a ZOOM_SELECTION layer, a save() during which the
\* zoom extraction fails still ends normally, with the render done and the
\* presentation, background and clipping copies made.
C14_ZoomFailureNotFatal ==
    \A n \in 1..Len(save_log) :
        ( /\ ~IsNone(_get_layer_by_type(layers, "ZOOM_SELECTION"))
          /\ zoom_fails
          /\ is_valid(batch[save_log[n].index])
          /\ primary_item_error(batch[save_log[n].index]) = ""
          /\ items_error(build_svg_final_figure(base_svg, layers),
                         batch[save_log[n].index]) = "" )
        => ( /\ save_log[n].raised = ""
             /\ \A step \in {"render", "save_presentation", "save_background",
                             "save_clipping", "save_secondary_items"} :
                   \E k \in 1..Len(save_log[n].steps) : save_log[n].steps[k] = step )

\* a and b are the same float up to rounding: |a - b| <= 2^(5 - MantissaBits) * |b|
Close(a, b) ==
    LET d == exact_sum(a, fneg(b))
    IN  Abs(d.n) * Pow2(MantissaBits - 5) <= Abs(b.m) * Pow2(b.e - d.e)

CloseRectangle(a, b) == Close(a.width, b.width) /\ Close(a.height, b.height)

\* C16: the rectangle min_resize returns has width / height equal to the
\* ratio (here even only up to rounding) and differs from r in at most one
\* of the two dimensions.
C16_RatioReached ==
    fit_once # None =>
        /\ Close(fdiv(fit_once.width, fit_once.height), fit_ratio)
        /\ (fit_once.width = fit_r.width \/ fit_once.height = fit_r.height)

C22_RenderCompletes ==
    \A n \in 1..Len(save_log) :
        ( /\ primary_item_error(batch[save_log[n].index]) = ""
          /\ items_error(build_svg_final_figure(base_svg, layers),
                         batch[save_log[n].index]) = "" )
        => /\ save_log[n].raised # "TypeError"
           /\ \E k \in 1..Len(save_log[n].steps) : save_log[n].steps[k] = "render"

\* the places of an event in the event history
PlacesOf(event) == {n \in 1..Len(events) : events[n] = event}

\* the composition_ready events, in the order of their emission
ReadyEvents == SelectSeq(events, LAMBDA e : e[1] = "composition_ready")

\* the compositions of the batch before position i that are valid
ValidBefore(i) ==
    SelectSeq(List([n \in 1..(i - 1) |-> n]), LAMBDA n : n <= Len(batch) /\ is_valid(batch[n]))

C21_PatternsNeverFail ==
    (name_result # None /\ ~name_append_bg) =>
        /\ name_result.raised = ""
        /\ Len(name_result.value) > Len(Extension)
        /\ SubSeq(name_result.value, Len(name_result.value) - Len(Extension),
                  Len(name_result.value)) = <<".">> \o Extension

(***************************************************************************)
(* Claims about extract_zoom_foreground (SpecCrop).                        *)
(***************************************************************************)
\* C27: the rectangle given to crop lies inside the source image:
\* 0 <= left <= right <= width and 0 <= top <= bottom <= height.
C27_CropInsideImage ==
    crop_call # None =>
        /\ 0 <= crop_call.left
        /\ crop_call.left <= crop_call.right
        /\ crop_call.right <= crop_original_image.width
        /\ 0 <= crop_call.top
        /\ crop_call.top <= crop_call.bottom
        /\ crop_call.bottom <= crop_original_image.height


=============================================================================
